---- MODULE Spec2Model ----
(***************************************************************************)
(* Multi-core, tick-stepped CPU scheduling simulator                       *)
(* (src/CSE4300/josh-alex-zach-viraj/sim.c and dispatch.c).                *)
(*                                                                         *)
(* sim.c and dispatch.c are translated line by line.  The queue and CPU    *)
(* helpers they call (q_push, q_pop, q_pop_min_burst, q_pop_min_remaining, *)
(* cpu_bind_core, cpu_step, preempt_to_ready, block_to_waiting,            *)
(* waiting_io_resolve, bump_queue_wait, ...) are declared in sim.h, which  *)
(* is not part of the source tree; they are modelled from sections 4.2,    *)
(* 4.3 and 4.5 of the design document.                                     *)
(*                                                                         *)
(* The Windows-like priority round robin of                                *)
(* src/CSE4300/Krish-Zohaib_Lyles/cpu_scheduler_sim_windows_vs_linux/      *)
(* cpu_sim.c (simulate_windows) is a second, independent state machine,    *)
(* and the CFS-like scheduler of the same file (simulate_cfs) a third.     *)
(*                                                                         *)
(* The standalone routines sjf() and rr() of                               *)
(* src/CSE4300/abhinav-daniel-eric-vin/ and the MemoryManager of           *)
(* src/CSE4300/alex/memory_simulation.cpp are two more state machines,     *)
(* each driven by calls with arguments from bounded sets.                  *)
(***************************************************************************)
EXTENDS Integers, Sequences, FiniteSets, TLC

VARIABLES
    pc,        \* position of main(): setup, the eight loop steps, done
    thr,       \* the Thread objects, indexed by tid
    workload,  \* Queue of tids not yet admitted (state New)
    ready,     \* Queue of tids
    waiting,   \* Queue of tids
    finished,  \* Queue of tids
    core,      \* cpu.core[]: one slot per core, NULL when idle
    SIM_TIME,  \* the global simulation clock
    algo,      \* the DispatchAlgo in use
    intr,      \* the InterruptConfig in use
    dlog,      \* history: the binds and preemptions of the last dispatch call
    wpc,       \* position of simulate_windows: off, loop, done
    wprocs,    \* cpu_sim.c: the Proc array procs[] of simulate_windows
    sim,       \* cpu_sim.c: the WinSim of simulate_windows
    win,       \* cpu_sim.c: the locals arrivals, ai, running, slice_start, slice_end
    cpc,       \* position of simulate_cfs: off, loop, done
    cprocs,    \* cpu_sim.c: the Proc array procs[] of simulate_cfs
    cfs,       \* cpu_sim.c: the CFSSim of simulate_cfs
    cloc,      \* cpu_sim.c: the locals arrivals, ai of simulate_cfs
    ps,        \* sjf.c, rr.c: procArray, the processes, the count, counter, tq
    pslog,     \* history: what the last call of sjf() or rr() read and did
    mm         \* memory_simulation.cpp: the MemoryManager object

vars == <<pc, thr, workload, ready, waiting, finished, core, SIM_TIME, algo, intr, dlog,
          wpc, wprocs, sim, win, cpc, cprocs, cfs, cloc, ps, pslog, mm>>

(* the variables of main() of sim.c, and those of cpu_sim.c *)
schedvars == <<pc, thr, workload, ready, waiting, finished, core, SIM_TIME, algo, intr, dlog>>

others == <<wpc, wprocs, sim, win, cpc, cprocs, cfs, cloc, ps, pslog, mm>>

(* the variables of sjf.c and rr.c, and of memory_simulation.cpp *)
psvars == <<ps, pslog>>

restvars == <<ps, pslog, mm>>

winvars == <<wpc, wprocs, sim, win>>

cfsvars == <<cpc, cprocs, cfs, cloc>>

----------------------------------------------------------------------------
(* Bounds of the model *)
MaxThreads == 3
MaxArrival == 1
MaxBurst == 3
MaxCores == 2
MaxIo == 2
WinMaxProcs == 3
WinMaxArrival == 2
WinMaxCs == 2
PMaxProcs == 3
PCap == 4
PMaxRemaining == 2
PMaxTime == 1
MmMaxPages == 3
MmMaxFrames == 3
MmPageSize == 2

(* Program constants *)
NULL == 0
Unset == -1
MAX_TICKS == 50000
timeQuantum == 1
INT_MAX == 2147483647

ST_NEW == "NEW"
ST_READY == "READY"
ST_RUNNING == "RUNNING"
ST_WAITING == "WAITING"
ST_FINISHED == "FINISHED"

DISP_FIFO == "FIFO"
DISP_SJF == "SJF"
DISP_SRTCF == "SRTCF"

Algos == {DISP_FIFO, DISP_SJF, DISP_SRTCF}

(* main's literal configuration (interrupts off), and two enabled ones *)
IntrMain == [enable_random |-> FALSE, pct_io |-> 10, io_min |-> 2, io_max |-> 6]

IntrConfigs ==
    { IntrMain,
      [enable_random |-> TRUE, pct_io |-> 50,  io_min |-> 1, io_max |-> MaxIo],
      [enable_random |-> TRUE, pct_io |-> 100, io_min |-> 1, io_max |-> MaxIo] }

(* rand() % 100: the smallest and the largest value it can give *)
RandPct == {0, 99}

----------------------------------------------------------------------------
(* Thread objects *)

make_thread(tid, arrival, burst) ==
    [ tid          |-> tid,
      arrival_time |-> arrival,
      burst_time   |-> burst,
      remaining    |-> burst,
      state        |-> ST_NEW,
      unblocked_at |-> Unset,
      start_time   |-> Unset,
      finish_time  |-> Unset,
      wait_time    |-> 0 ]

----------------------------------------------------------------------------
(* Queue operations (sim.h; design document 4.2).  A queue is the sequence *)
(* of the tids it links, head first.                                       *)

q_empty(q) == q = <<>>

q_push(q, t) == Append(q, t)

q_remove_at(q, i) == SubSeq(q, 1, i - 1) \o SubSeq(q, i + 1, Len(q))

(* position of the first smallest of the keys of a queue; 0 when it is empty *)
q_min_pos(keys) ==
    IF keys = <<>> THEN 0
    ELSE CHOOSE i \in 1..Len(keys) :
            /\ \A j \in 1..Len(keys) : keys[i] <= keys[j]
            /\ \A j \in 1..(i - 1) : keys[j] > keys[i]

(* A "machine" m is the record of everything the loop steps read and write:
   [thr, workload, ready, waiting, finished, core, time, log]. *)

(* q_pop(ready): [t |-> head or NULL, m |-> machine after the pop] *)
q_pop(m) ==
    IF q_empty(m.ready) THEN [t |-> NULL, m |-> m]
    ELSE [t |-> Head(m.ready), m |-> [m EXCEPT !.ready = Tail(m.ready)]]

q_pop_min_burst(m) ==
    LET i == q_min_pos([k \in DOMAIN m.ready |-> m.thr[m.ready[k]].burst_time])
    IN  IF i = 0 THEN [t |-> NULL, m |-> m]
        ELSE [t |-> m.ready[i], m |-> [m EXCEPT !.ready = q_remove_at(m.ready, i)]]

q_pop_min_remaining(m) ==
    LET i == q_min_pos([k \in DOMAIN m.ready |-> m.thr[m.ready[k]].remaining])
    IN  IF i = 0 THEN [t |-> NULL, m |-> m]
        ELSE [t |-> m.ready[i], m |-> [m EXCEPT !.ready = q_remove_at(m.ready, i)]]

----------------------------------------------------------------------------
(* CoreArray operations (sim.h; design document 4.3).  Cores are numbered  *)
(* 1..ncores here, 0..ncores-1 in the C code; "none" is 0 here, -1 there.  *)

ncores == Len(core)

cpu_init(n) == [i \in 1..n |-> NULL]

cpu_any_idle(m) == \E i \in 1..Len(m.core) : m.core[i] = NULL

cpu_first_idle(m) ==
    IF cpu_any_idle(m)
    THEN CHOOSE i \in 1..Len(m.core) :
            m.core[i] = NULL /\ \A j \in 1..(i - 1) : m.core[j] # NULL
    ELSE 0

(* bind thread t to core c: state Running, start_time recorded if unset *)
cpu_bind_core(m, c, t) ==
    [m EXCEPT
        !.core[c] = t,
        !.thr[t].state = ST_RUNNING,
        !.thr[t].start_time = IF @ = Unset THEN m.time ELSE @,
        !.log = Append(@, [op |-> "bind", tid |-> t, core |-> c,
                           was |-> m.core[c]])]

cpu_bind_first_idle(m, t) == cpu_bind_core(m, cpu_first_idle(m), t)

(* clear the slot; the caller holds the prior occupant *)
cpu_unbind_core(m, c) == [m EXCEPT !.core[c] = NULL]

(* Running -> Ready: remaining untouched, appended to Ready *)
preempt_to_ready(m, c) ==
    LET t == m.core[c]
    IN  [cpu_unbind_core(m, c) EXCEPT
            !.thr[t].state = ST_READY,
            !.ready = q_push(@, t),
            !.log = Append(@, [op |-> "preempt", tid |-> t, core |-> c,
                               was |-> t])]

(* Running -> Waiting until unblock *)
block_to_waiting(m, c, unblock) ==
    LET t == m.core[c]
    IN  [cpu_unbind_core(m, c) EXCEPT
            !.thr[t].state = ST_WAITING,
            !.thr[t].unblocked_at = unblock,
            !.waiting = q_push(@, t)]

(* every occupied core runs one tick (floor at 0); then the clock advances *)
cpu_step(m) ==
    [m EXCEPT
        !.thr = [t \in DOMAIN m.thr |->
                    IF \E c \in 1..Len(m.core) : m.core[c] = t
                    THEN [m.thr[t] EXCEPT !.remaining = IF @ > 0 THEN @ - 1 ELSE 0]
                    ELSE m.thr[t]],
        !.time = @ + 1]

(* everyone still queued accrues one tick of waiting *)
bump_queue_wait(m) ==
    [m EXCEPT
        !.thr = [t \in DOMAIN m.thr |->
                    IF \E i \in 1..Len(m.ready) : m.ready[i] = t
                    THEN [m.thr[t] EXCEPT !.wait_time = @ + 1]
                    ELSE m.thr[t]]]

(* Waiting -> Ready for every thread whose unblock time is now *)
waiting_io_resolve(m, now) ==
    LET due(t) == m.thr[t].unblocked_at = now
        out    == SelectSeq(m.waiting, due)
    IN  [m EXCEPT
            !.waiting = SelectSeq(m.waiting, LAMBDA t : ~due(t)),
            !.ready   = @ \o out,
            !.thr     = [t \in DOMAIN m.thr |->
                            IF \E i \in 1..Len(out) : out[i] = t
                            THEN [m.thr[t] EXCEPT !.state = ST_READY]
                            ELSE m.thr[t]]]

----------------------------------------------------------------------------
(* sim.c *)

(* workload_add: make_thread and q_push, no validation of any kind *)
workload_add(m, tid, arrival, burst) ==
    [m EXCEPT
        !.thr = Append(@, make_thread(tid, arrival, burst)),
        !.workload = q_push(@, tid)]

(* the check of workload_prompt on one "arrival burst" entry read from in *)
prompt_entry_ok(e) == e[1] >= 0 /\ e[2] > 0

(* workload_prompt reading n and then the entries of the input stream inp:
   an invalid entry is discarded and the read repeated; a stream that ends
   early is the failure return.  [rc, m] *)
RECURSIVE prompt_read(_, _, _, _)
prompt_read(m, n, i, inp) ==
    IF i > n THEN [rc |-> n, m |-> m]
    ELSE IF inp = <<>> THEN [rc |-> -1, m |-> m]
    ELSE IF prompt_entry_ok(Head(inp))
         THEN prompt_read(workload_add(m, i, Head(inp)[1], Head(inp)[2]),
                          n, i + 1, Tail(inp))
         ELSE prompt_read(m, n, i, Tail(inp))

workload_prompt(m, n, inp) ==
    IF n < 1 THEN [rc |-> -1, m |-> [m EXCEPT !.thr = <<>>, !.workload = <<>>]]
    ELSE prompt_read([m EXCEPT !.thr = <<>>, !.workload = <<>>], n, 1, inp)

(* admit_one without the assignment of the state *)
admit_one_keeps_new(m, t, now) ==
    IF m.thr[t].arrival_time = now
    THEN [m EXCEPT !.ready = q_push(@, t)]
    ELSE [m EXCEPT !.workload = q_push(@, t)]

(* one thread of the scan of workload_admit_tick *)
admit_one(m, t, now) ==
    IF m.thr[t].arrival_time = now
    THEN [m EXCEPT !.thr[t].state = ST_READY, !.ready = q_push(@, t)]
    ELSE [m EXCEPT !.workload = q_push(@, t)]

RECURSIVE admit_scan(_, _, _)
admit_scan(m, rest, now) ==
    IF rest = <<>> THEN m
    ELSE admit_scan(admit_one(m, Head(rest), now), Tail(rest), now)

(* the non-arrivals are put back in their original order *)
workload_admit_tick(m, now) ==
    IF q_empty(m.workload) THEN m
    ELSE admit_scan([m EXCEPT !.workload = <<>>], m.workload, now)

(* collect_one with the finish time written before the test of remaining *)
collect_one_stamps_all(m, i) ==
    LET t == m.core[i]
    IN  IF t = NULL THEN m
        ELSE IF m.thr[t].remaining = 0
             THEN [cpu_unbind_core(m, i) EXCEPT
                      !.thr[t].state = ST_FINISHED,
                      !.thr[t].finish_time = m.time,
                      !.finished = q_push(@, t)]
             ELSE [m EXCEPT !.thr[t].finish_time = m.time]

(* collect_completions that marks the thread Finished but leaves it bound *)
collect_one_keeps_core(m, i) ==
    LET t == m.core[i]
    IN  IF t = NULL THEN m
        ELSE IF m.thr[t].remaining = 0
             THEN [m EXCEPT
                      !.thr[t].state = ST_FINISHED,
                      !.thr[t].finish_time = IF @ < 0 THEN m.time ELSE @,
                      !.finished = q_push(@, t)]
             ELSE m

(* collect_completions that stamps the clock of before the step *)
collect_one_prestep(m, i) ==
    LET t == m.core[i]
    IN  IF t = NULL THEN m
        ELSE IF m.thr[t].remaining = 0
             THEN [cpu_unbind_core(m, i) EXCEPT
                      !.thr[t].state = ST_FINISHED,
                      !.thr[t].finish_time = IF @ < 0 THEN m.time - 1 ELSE @,
                      !.finished = q_push(@, t)]
             ELSE m

(* collect_completions that takes a thread one tick before its end *)
collect_one_early(m, i) ==
    LET t == m.core[i]
    IN  IF t = NULL THEN m
        ELSE IF m.thr[t].remaining <= 1
             THEN [cpu_unbind_core(m, i) EXCEPT
                      !.thr[t].state = ST_FINISHED,
                      !.thr[t].finish_time = IF @ < 0 THEN m.time ELSE @,
                      !.finished = q_push(@, t)]
             ELSE m

(* one core of collect_completions *)
collect_one(m, i) ==
    LET t == m.core[i]
    IN  IF t = NULL THEN m
        ELSE IF m.thr[t].remaining = 0
             THEN [cpu_unbind_core(m, i) EXCEPT
                      !.thr[t].state = ST_FINISHED,
                      !.thr[t].finish_time = IF @ < 0 THEN m.time ELSE @,
                      !.finished = q_push(@, t)]
             ELSE m

RECURSIVE collect_from(_, _)
collect_from(m, i) ==
    IF i > Len(m.core) THEN m ELSE collect_from(collect_one(m, i), i + 1)

collect_completions(m) == collect_from(m, 1)

all_done(m) ==
    /\ q_empty(m.ready)
    /\ q_empty(m.waiting)
    /\ \A i \in 1..Len(m.core) : m.core[i] = NULL

(* rnd without the lower bound added *)
rnd_from_zero(a, b, x) == x % (b - a + 1)

(* rnd(a, b) = a + rand() % (b - a + 1), x being the value of rand() *)
rnd(a, b, x) == a + (x % (b - a + 1))

(* an interruption that loses the work done: remaining starts over *)
interrupt_one_restarts(cfg, m, c, d) ==
    LET t == m.core[c]
    IN  IF t = NULL THEN m
        ELSE IF d.r < cfg.pct_io
             THEN [block_to_waiting(m, c, m.time + rnd(cfg.io_min, cfg.io_max, d.x))
                      EXCEPT !.thr[t].remaining = m.thr[t].burst_time]
             ELSE m

(* one core of random_interrupts; d = [r, x]: the two values rand() gives *)
interrupt_one(cfg, m, c, d) ==
    LET t == m.core[c]
    IN  IF t = NULL THEN m
        ELSE IF d.r < cfg.pct_io
             THEN block_to_waiting(m, c, m.time + rnd(cfg.io_min, cfg.io_max, d.x))
             ELSE m

RECURSIVE interrupts_from(_, _, _, _)
interrupts_from(cfg, m, c, draws) ==
    IF c > Len(m.core) THEN m
    ELSE interrupts_from(cfg, interrupt_one(cfg, m, c, draws[c]), c + 1, draws)

random_interrupts(cfg, m, draws) ==
    IF ~cfg.enable_random THEN m ELSE interrupts_from(cfg, m, 1, draws)

----------------------------------------------------------------------------
(* dispatch.c *)

(* fifo_step taking the shortest job instead of the head *)
fifo_step_min_burst(m) ==
    IF ~cpu_any_idle(m) THEN [again |-> FALSE, m |-> m]
    ELSE LET p == q_pop_min_burst(m)
         IN  IF p.t = NULL THEN [again |-> FALSE, m |-> p.m]
             ELSE [again |-> TRUE, m |-> cpu_bind_first_idle(p.m, p.t)]

(* fifo_step that stops after its first bind (an if for the while) *)
fifo_step_once(m) ==
    IF ~cpu_any_idle(m) THEN [again |-> FALSE, m |-> m]
    ELSE LET p == q_pop(m)
         IN  [again |-> FALSE,
              m |-> IF p.t = NULL THEN p.m ELSE cpu_bind_first_idle(p.m, p.t)]

(* one iteration of the loop of dispatch_fifo: [again, m] *)
fifo_step(m) ==
    IF ~cpu_any_idle(m) THEN [again |-> FALSE, m |-> m]
    ELSE LET p == q_pop(m)
         IN  IF p.t = NULL THEN [again |-> FALSE, m |-> p.m]
             ELSE [again |-> TRUE, m |-> cpu_bind_first_idle(p.m, p.t)]

RECURSIVE dispatch_fifo(_)
dispatch_fifo(m) ==
    LET r == fifo_step(m) IN IF r.again THEN dispatch_fifo(r.m) ELSE r.m

(* sjf_step taking the head instead of the shortest job *)
sjf_step_head(m) ==
    IF ~cpu_any_idle(m) THEN [again |-> FALSE, m |-> m]
    ELSE LET p == q_pop(m)
         IN  IF p.t = NULL THEN [again |-> FALSE, m |-> p.m]
             ELSE [again |-> TRUE, m |-> cpu_bind_first_idle(p.m, p.t)]

(* sjf_step that lets a shorter job take the first core from its thread *)
sjf_step_preemptive(m) ==
    LET p == q_pop_min_burst(m)
    IN  IF p.t = NULL THEN [again |-> FALSE, m |-> p.m]
        ELSE IF cpu_any_idle(p.m)
             THEN [again |-> TRUE, m |-> cpu_bind_first_idle(p.m, p.t)]
             ELSE IF p.m.thr[p.m.core[1]].burst_time > p.m.thr[p.t].burst_time
                  THEN [again |-> TRUE,
                        m |-> cpu_bind_core(preempt_to_ready(p.m, 1), 1, p.t)]
                  ELSE [again |-> FALSE, m |-> [p.m EXCEPT !.ready = <<p.t>> \o @]]

(* one iteration of the loop of dispatch_sjf *)
sjf_step(m) ==
    IF ~cpu_any_idle(m) THEN [again |-> FALSE, m |-> m]
    ELSE LET p == q_pop_min_burst(m)
         IN  IF p.t = NULL THEN [again |-> FALSE, m |-> p.m]
             ELSE [again |-> TRUE, m |-> cpu_bind_first_idle(p.m, p.t)]

RECURSIVE dispatch_sjf(_)
dispatch_sjf(m) ==
    LET r == sjf_step(m) IN IF r.again THEN dispatch_sjf(r.m) ELSE r.m

(* worse_than that prefers the smallest remaining above the threshold *)
worse_than_smallest(rem, threshold, best_rem) ==
    rem > threshold /\ (best_rem = -1 \/ rem < best_rem)

(* worse_than that takes any running thread above the threshold *)
worse_than_any_above(rem, threshold, best_rem) == rem > threshold

(* worse_than with the threshold off by one *)
worse_than_off_by_one(rem, threshold, best_rem) ==
    rem > threshold + 1 /\ rem > best_rem

(* the test of core_with_largest_remaining_above on one running thread *)
worse_than(rem, threshold, best_rem) == rem > threshold /\ rem > best_rem

RECURSIVE largest_scan(_, _, _, _, _)
largest_scan(m, threshold, i, best_core, best_rem) ==
    IF i > Len(m.core) THEN best_core
    ELSE LET r == m.core[i]
         IN  IF r = NULL THEN largest_scan(m, threshold, i + 1, best_core, best_rem)
             ELSE IF worse_than(m.thr[r].remaining, threshold, best_rem)
                  THEN largest_scan(m, threshold, i + 1, i, m.thr[r].remaining)
                  ELSE largest_scan(m, threshold, i + 1, best_core, best_rem)

(* 0 when there is none (-1 in the C code) *)
core_with_largest_remaining_above(m, threshold) ==
    largest_scan(m, threshold, 1, 0, -1)

(* one iteration of the first loop of dispatch_srtcf: fill the idle cores *)
srtcf_fill_step(m) ==
    IF ~cpu_any_idle(m) THEN [again |-> FALSE, m |-> m]
    ELSE LET p == q_pop_min_remaining(m)
         IN  IF p.t = NULL THEN [again |-> FALSE, m |-> p.m]
             ELSE [again |-> TRUE, m |-> cpu_bind_first_idle(p.m, p.t)]

RECURSIVE srtcf_fill(_)
srtcf_fill(m) ==
    LET r == srtcf_fill_step(m) IN IF r.again THEN srtcf_fill(r.m) ELSE r.m

(* srtcf_preempt_step without the put-back of the candidate *)
srtcf_preempt_step_drops(m) ==
    LET p == q_pop_min_remaining(m)
    IN  IF p.t = NULL THEN [again |-> FALSE, m |-> p.m]
        ELSE LET idle == cpu_first_idle(p.m)
             IN  IF idle # 0
                 THEN [again |-> TRUE, m |-> cpu_bind_core(p.m, idle, p.t)]
                 ELSE LET victim == core_with_largest_remaining_above(
                                        p.m, p.m.thr[p.t].remaining)
                      IN  IF victim # 0
                          THEN [again |-> TRUE,
                                m |-> cpu_bind_core(preempt_to_ready(p.m, victim),
                                                    victim, p.t)]
                          ELSE [again |-> FALSE, m |-> p.m]

(* srtcf_preempt_step that takes the head of Ready as its candidate *)
srtcf_preempt_step_pops_head(m) ==
    LET p == q_pop(m)
    IN  IF p.t = NULL THEN [again |-> FALSE, m |-> p.m]
        ELSE LET idle == cpu_first_idle(p.m)
             IN  IF idle # 0
                 THEN [again |-> TRUE, m |-> cpu_bind_core(p.m, idle, p.t)]
                 ELSE LET victim == core_with_largest_remaining_above(
                                        p.m, p.m.thr[p.t].remaining)
                      IN  IF victim # 0
                          THEN [again |-> TRUE,
                                m |-> cpu_bind_core(preempt_to_ready(p.m, victim),
                                                    victim, p.t)]
                          ELSE [again |-> FALSE,
                                m |-> [p.m EXCEPT !.ready = q_push(@, p.t)]]

(* srtcf_preempt_step that binds over its victim without preempting it *)
srtcf_preempt_step_overwrites(m) ==
    LET p == q_pop_min_remaining(m)
    IN  IF p.t = NULL THEN [again |-> FALSE, m |-> p.m]
        ELSE LET idle == cpu_first_idle(p.m)
             IN  IF idle # 0
                 THEN [again |-> TRUE, m |-> cpu_bind_core(p.m, idle, p.t)]
                 ELSE LET victim == core_with_largest_remaining_above(
                                        p.m, p.m.thr[p.t].remaining)
                      IN  IF victim # 0
                          THEN [again |-> TRUE, m |-> cpu_bind_core(p.m, victim, p.t)]
                          ELSE [again |-> FALSE,
                                m |-> [p.m EXCEPT !.ready = q_push(@, p.t)]]

(* one iteration of the second loop of dispatch_srtcf: place or put back *)
srtcf_preempt_step(m) ==
    LET p == q_pop_min_remaining(m)
    IN  IF p.t = NULL THEN [again |-> FALSE, m |-> p.m]
        ELSE LET idle == cpu_first_idle(p.m)
             IN  IF idle # 0
                 THEN [again |-> TRUE, m |-> cpu_bind_core(p.m, idle, p.t)]
                 ELSE LET victim == core_with_largest_remaining_above(
                                        p.m, p.m.thr[p.t].remaining)
                      IN  IF victim # 0
                          THEN [again |-> TRUE,
                                m |-> cpu_bind_core(preempt_to_ready(p.m, victim),
                                                    victim, p.t)]
                          ELSE [again |-> FALSE,
                                m |-> [p.m EXCEPT !.ready = q_push(@, p.t)]]

RECURSIVE srtcf_preempt(_)
srtcf_preempt(m) ==
    LET r == srtcf_preempt_step(m) IN IF r.again THEN srtcf_preempt(r.m) ELSE r.m

dispatch_srtcf(m) == srtcf_preempt(srtcf_fill(m))

(* dispatch_get: the policy function of an algorithm *)
schedule(a, m) ==
    CASE a = DISP_FIFO  -> dispatch_fifo(m)
      [] a = DISP_SJF   -> dispatch_sjf(m)
      [] a = DISP_SRTCF -> dispatch_srtcf(m)
      [] OTHER          -> dispatch_fifo(m)

----------------------------------------------------------------------------
(* cpu_sim.c: the Windows-like priority round robin.  Processes are        *)
(* numbered 1..n here, 0..n-1 in the C code; "no process" is -1 in both.   *)
(* A machine W is [p, sim, arrivals, ai, running, slice_start, slice_end]. *)

CLAMP(v, lo, hi) == IF v < lo THEN lo ELSE IF v > hi THEN hi ELSE v

(* A double (Proc.vruntime, MinHeap.key) is the exact fraction n / d.  The *)
(* sums formed here have one denominator per process, and for the weights  *)
(* of the workloads below two different fractions are never closer than    *)
(* the rounding of a double, so that comparisons give what the C code gets.*)
dbl(i) == [n |-> i, d |-> 1]

dbl_add(a, b) ==
    IF a.d = b.d THEN [n |-> a.n + b.n, d |-> a.d]
    ELSE [n |-> a.n * b.d + b.n * a.d, d |-> a.d * b.d]

dbl_lt(a, b) == a.n * b.d < b.n * a.d

dbl_le(a, b) == a.n * b.d <= b.n * a.d

(* the priority levels of WinSim.queues[16] *)
Levels == 0..15

(* the dummy workload work[] *)
work ==
    << [pid |-> 1, arrival |-> 0,  burst |-> 16, base_prio |-> 10, nice |-> 0],
       [pid |-> 2, arrival |-> 2,  burst |-> 4,  base_prio |-> 8,  nice |-> -5],
       [pid |-> 3, arrival |-> 4,  burst |-> 20, base_prio |-> 6,  nice |-> 5],
       [pid |-> 4, arrival |-> 6,  burst |-> 3,  base_prio |-> 12, nice |-> -10],
       [pid |-> 5, arrival |-> 10, burst |-> 12, base_prio |-> 7,  nice |-> 0],
       [pid |-> 6, arrival |-> 12, burst |-> 8,  base_prio |-> 14, nice |-> 2] >>

(* reset: copy the workload and reset the runtime state *)
reset(src) ==
    [i \in DOMAIN src |->
        [pid |-> src[i].pid, arrival |-> src[i].arrival, burst |-> src[i].burst,
         base_prio |-> src[i].base_prio, nice |-> src[i].nice,
         remaining |-> src[i].burst, start_time |-> -1, completion |-> -1,
         waiting |-> 0, last_enq |-> -1,
         dyn_prio |-> CLAMP(src[i].base_prio, 0, 15),
         vruntime |-> dbl(0)]]

(* gantt_push: zero-length and negative slices are ignored *)
gantt_push(g, s, e, pid) ==
    IF e <= s THEN g ELSE Append(g, [start |-> s, end |-> e, pid |-> pid])

(* win_init: quantum_for_prio[i] = 6 + i/2 *)
quantum_for_prio(i) == 6 + (i \div 2)

win_init(cs_cost) ==
    [queues |-> [l \in Levels |-> <<>>], ready_count |-> 0, now |-> 0,
     cs_cost |-> cs_cost, gantt |-> <<>>, busy_time |-> 0]

win_enqueue(W, idx) ==
    LET lvl == CLAMP(W.p[idx].dyn_prio, 0, 15)
    IN  [W EXCEPT !.p[idx].last_enq = W.sim.now,
                  !.sim.queues[lvl] = Append(@, idx),
                  !.sim.ready_count = @ + 1]

(* win_pick: [idx, q, W]; the head of the highest non-empty level *)
RECURSIVE win_pick_from(_, _)
win_pick_from(W, lvl) ==
    IF lvl < 0 THEN [idx |-> -1, q |-> 0, W |-> W]
    ELSE IF W.sim.queues[lvl] # <<>>
         THEN [idx |-> Head(W.sim.queues[lvl]),
               q |-> quantum_for_prio(lvl),
               W |-> [W EXCEPT !.sim.queues[lvl] = Tail(@),
                               !.sim.ready_count = @ - 1]]
         ELSE win_pick_from(W, lvl - 1)

win_pick(W) == win_pick_from(W, 15)

(* the test of the sort of the arrivals: b goes before a *)
arrival_before(p, b, a) ==
    b.t < a.t \/ (b.t = a.t /\ p[b.idx].pid < p[a.idx].pid)

RECURSIVE sort_inner(_, _, _, _)
sort_inner(p, a, i, j) ==
    IF j > Len(a) THEN a
    ELSE sort_inner(p,
                    IF arrival_before(p, a[j], a[i])
                    THEN [a EXCEPT ![i] = a[j], ![j] = a[i]]
                    ELSE a,
                    i, j + 1)

RECURSIVE sort_outer(_, _, _)
sort_outer(p, a, i) ==
    IF i >= Len(a) THEN a ELSE sort_outer(p, sort_inner(p, a, i, i + 1), i + 1)

(* the arrival events of simulate_windows, sorted by time, then pid *)
sort_arrivals(p) ==
    sort_outer(p, [i \in DOMAIN p |-> [t |-> p[i].arrival, idx |-> i]], 1)

(* the inner loop at the head of the main loop: enqueue what has arrived *)
RECURSIVE handle_arrivals(_)
handle_arrivals(W) ==
    IF W.ai <= Len(W.arrivals) /\ W.arrivals[W.ai].t <= W.sim.now
    THEN handle_arrivals([win_enqueue(W, W.arrivals[W.ai].idx) EXCEPT !.ai = @ + 1])
    ELSE W

(* slice_over that ends the slice as soon as a process is ready *)
slice_over_on_ready(W) ==
    W.running # -1 /\ (W.sim.now >= W.slice_end \/ W.sim.ready_count > 0)

(* the test of the end of the running slice *)
slice_over(W) == W.running # -1 /\ W.sim.now >= W.slice_end

(* the running slice has ended: account it, then complete or re-enqueue *)
end_slice(W) ==
    IF ~slice_over(W) THEN W
    ELSE LET r == W.running
             ran == W.slice_end - W.slice_start
             W1 == IF ran > 0
                   THEN [W EXCEPT !.p[r].remaining = @ - ran,
                                  !.sim.busy_time = @ + ran]
                   ELSE W
         IN  IF W1.p[r].remaining <= 0
             THEN [W1 EXCEPT !.p[r].completion = W.slice_end, !.running = -1]
             ELSE [win_enqueue([W1 EXCEPT !.p[r].dyn_prio = CLAMP(@ - 1, 0, 15)], r)
                      EXCEPT !.running = -1]

(* the main loop up to the test of running == -1 *)
loop_head(W) == end_slice(handle_arrivals(W))

(* nothing ready, arrivals to come: idle until the next arrival *)
must_idle(W) == W.sim.ready_count = 0 /\ W.ai <= Len(W.arrivals)

(* the picked process idx starts a slice of at most q *)
start_slice(W, idx, q) ==
    LET aged == IF W.p[idx].last_enq # -1 /\ W.sim.now - W.p[idx].last_enq > 10
                THEN [W EXCEPT !.p[idx].dyn_prio = CLAMP(@ + 1, 0, 15)]
                ELSE W
        now1 == IF W.sim.cs_cost > 0 THEN W.sim.now + W.sim.cs_cost ELSE W.sim.now
        run_len == IF W.p[idx].remaining < q THEN W.p[idx].remaining ELSE q
    IN  [aged EXCEPT
            !.sim.now = now1,
            !.p[idx].start_time = IF @ = -1 THEN now1 ELSE @,
            !.slice_start = now1,
            !.slice_end = now1 + run_len,
            !.sim.gantt = gantt_push(@, now1, now1 + run_len, W.p[idx].pid),
            !.p[idx].waiting = IF W.p[idx].last_enq # -1
                               THEN @ + (now1 - W.p[idx].last_enq)
                               ELSE @,
            !.running = idx]

(* the end of the main loop: jump to the next arrival or to the slice end *)
next_event(W) ==
    LET next_t == W.slice_end
    IN  [W EXCEPT !.sim.now = IF W.ai <= Len(W.arrivals) /\ W.arrivals[W.ai].t < next_t
                              THEN W.arrivals[W.ai].t
                              ELSE next_t]

----------------------------------------------------------------------------
(* cpu_sim.c: the CFS-like scheduler.  The run queue is a binary min-heap  *)
(* of [idx, key] kept in a sequence: slot i of the C arrays is element     *)
(* i + 1 here, so the parent of element i is i \div 2 and its children are *)
(* 2i and 2i + 1.  A machine C is [p, sim, arrivals, ai].                  *)

hswap(h, i, j) == [h EXCEPT ![i] = h[j], ![j] = h[i]]

(* the bubble-up loop of hpush *)
RECURSIVE hpush_up(_, _)
hpush_up(h, i) ==
    IF i <= 1 THEN h
    ELSE LET p == i \div 2
         IN  IF dbl_le(h[p].key, h[i].key) THEN h
             ELSE hpush_up(hswap(h, i, p), p)

hpush(h, idx, key) ==
    hpush_up(Append(h, [idx |-> idx, key |-> key]), Len(h) + 1)

(* the bubble-down loop of hpop *)
RECURSIVE hpop_down(_, _)
hpop_down(h, i) ==
    LET l == 2 * i
        r == 2 * i + 1
        m1 == IF l <= Len(h) /\ dbl_lt(h[l].key, h[i].key) THEN l ELSE i
        m == IF r <= Len(h) /\ dbl_lt(h[r].key, h[m1].key) THEN r ELSE m1
    IN  IF m = i THEN h ELSE hpop_down(hswap(h, i, m), m)

(* hpop: [ok, idx, key, h] *)
hpop(h) ==
    IF Len(h) = 0 THEN [ok |-> FALSE, idx |-> -1, key |-> dbl(0), h |-> h]
    ELSE LET n == Len(h) - 1
             moved == IF n > 0 THEN [SubSeq(h, 1, n) EXCEPT ![1] = h[n + 1]]
                      ELSE <<>>
         IN  [ok |-> TRUE, idx |-> h[1].idx, key |-> h[1].key,
              h |-> IF n > 0 THEN hpop_down(moved, 1) ELSE moved]

(* the default case of nice_weight: (int)(w + 0.5) for                     *)
(* w = 512.0 * pow(1.25, -(nice / 5.0)), which is never below 50           *)
nice_interp ==
    [n \in -20..19 |->
        << 1250, 1195, 1143, 1093, 1046, 1000, 956, 915, 875, 837,
           800, 765, 732, 700, 669, 640, 612, 585, 560, 535,
           512, 490, 468, 448, 428, 410, 392, 375, 358, 343,
           328, 313, 300, 287, 274, 262, 251, 240, 229, 219 >>[n + 21]]

nice_weight(nice) ==
    LET n == IF nice < -20 THEN -20 ELSE IF nice > 19 THEN 19 ELSE nice
    IN  CASE n = -20 -> 2048
          [] n = -15 -> 1247
          [] n = -10 -> 933
          [] n = -5  -> 717
          [] n = 0   -> 512
          [] n = 1   -> 460
          [] n = 2   -> 410
          [] n = 5   -> 335
          [] n = 10  -> 222
          [] n = 15  -> 140
          [] n = 19  -> 110
          [] OTHER   -> nice_interp[n]

cfs_init(cs_cost, sched_period) ==
    [runq |-> <<>>, sum_weights |-> 0, now |-> 0, cs_cost |-> cs_cost,
     sched_period |-> sched_period, gantt |-> <<>>, busy_time |-> 0]

cfs_enqueue(C, idx) ==
    [C EXCEPT !.p[idx].last_enq = C.sim.now,
              !.sim.runq = hpush(@, idx, C.p[idx].vruntime),
              !.sim.sum_weights = @ + nice_weight(C.p[idx].nice)]

(* cfs_pick: [ok, idx, slice, C].  The slice is                            *)
(* (int)(sched_period * (w / denom)) in doubles, which for the periods and *)
(* weights of the workloads below is the integer quotient.                 *)
cfs_pick(C) ==
    LET k == hpop(C.sim.runq)
        w == nice_weight(C.p[k.idx].nice)
        denom == IF C.sim.sum_weights > 0 THEN C.sim.sum_weights ELSE w
        sl == (C.sim.sched_period * w) \div denom
    IN  IF Len(C.sim.runq) = 0
        THEN [ok |-> FALSE, idx |-> -1, slice |-> 0, C |-> C]
        ELSE [ok |-> TRUE, idx |-> k.idx, slice |-> IF sl < 1 THEN 1 ELSE sl,
              C |-> [C EXCEPT !.sim.runq = k.h]]

cfs_requeue(C, idx) ==
    [C EXCEPT !.sim.runq = hpush(@, idx, C.p[idx].vruntime)]

(* the inner loop at the head of the main loop of simulate_cfs *)
RECURSIVE cfs_arrivals(_)
cfs_arrivals(C) ==
    IF C.ai <= Len(C.arrivals) /\ C.arrivals[C.ai].t <= C.sim.now
    THEN cfs_arrivals([cfs_enqueue(C, C.arrivals[C.ai].idx) EXCEPT !.ai = @ + 1])
    ELSE C

(* a run length that is always the whole slice *)
cfs_run_len_whole_slice(remaining, slice) == slice

(* the run length of a slice: what is left, at most the slice *)
cfs_run_len(remaining, slice) == IF remaining < slice THEN remaining ELSE slice

(* the picked process idx runs its slice to the end, then completes or is  *)
(* put back into the run queue                                             *)
cfs_run(C, idx, slice) ==
    LET now1 == IF C.sim.cs_cost > 0 THEN C.sim.now + C.sim.cs_cost ELSE C.sim.now
        run_len == cfs_run_len(C.p[idx].remaining, slice)
        end == now1 + run_len
        w == nice_weight(C.p[idx].nice)
        C1 == [C EXCEPT
                 !.p[idx].start_time = IF @ = -1 THEN now1 ELSE @,
                 !.p[idx].waiting = IF C.p[idx].last_enq # -1
                                    THEN @ + (now1 - C.p[idx].last_enq)
                                    ELSE @,
                 !.p[idx].remaining = @ - run_len,
                 !.p[idx].vruntime = dbl_add(@, [n |-> run_len * 512, d |-> w]),
                 !.sim.gantt = gantt_push(@, now1, end, C.p[idx].pid),
                 !.sim.busy_time = @ + run_len,
                 !.sim.now = end]
    IN  IF C1.p[idx].remaining <= 0
        THEN [C1 EXCEPT !.p[idx].completion = end,
                        !.sim.sum_weights = @ - w]
        ELSE cfs_requeue([C1 EXCEPT !.p[idx].last_enq = end], idx)

----------------------------------------------------------------------------
(* sjf.c and rr.c: the standalone routines sjf() and rr().  A machine P is *)
(* [procArray, proc, len, addr, counter, tq, status, log]: procArray is    *)
(* the array of pointers, indexed from 0, a pointer being NULL or the      *)
(* number of a process; proc holds the struct process objects; len is the  *)
(* int that the parameter len (arrayIdx in rr) points to, and addr the     *)
(* value of that pointer.  Both routines compare the int i with the        *)
(* pointer itself, not with the int it points to: the bound of their loops *)
(* is an address.  Of an address only this is kept: it lies further out    *)
(* than any index of the array.  Reading or writing outside the array and  *)
(* following a NULL pointer are undefined: status becomes "ub" and the     *)
(* call does not go on.                                                    *)

(* the number of slots of procArray *)
cap(P) == Cardinality(DOMAIN P.procArray)

ub(P) == [P EXCEPT !.status = "ub"]

(* a selection scan that stops before the count *)
sjf_scan_last_count(P) == P.len - 1

(* the last index of the selection scan: i <= len, len being the pointer *)
sjf_scan_last(P) == P.addr

(* the selection scan: [P, shortest, pid], P.log.reads the indices read *)
RECURSIVE sjf_scan(_, _, _, _)
sjf_scan(P, i, shortest, pid) ==
    IF i > sjf_scan_last(P) THEN [P |-> P, shortest |-> shortest, pid |-> pid]
    ELSE LET R == [P EXCEPT !.log.reads = Append(@, i)]
         IN  IF i >= cap(P) \/ P.procArray[i] = NULL
             THEN [P |-> ub(R), shortest |-> shortest, pid |-> pid]
             ELSE IF P.proc[P.procArray[i]].remainingTime <= shortest
                  THEN sjf_scan(R, i + 1, P.proc[P.procArray[i]].remainingTime, i)
                  ELSE sjf_scan(R, i + 1, shortest, pid)

(* the end of the shift loop: i < len, len being the pointer *)
sjf_shift_end(P) == P.addr

(* the loop that shifts the items toward the front *)
RECURSIVE sjf_shift(_, _)
sjf_shift(P, i) ==
    IF i >= sjf_shift_end(P) THEN P
    ELSE IF i + 1 >= cap(P) THEN ub(P)
    ELSE sjf_shift([P EXCEPT !.procArray[i] = P.procArray[i + 1]], i + 1)

(* sjf(procArray, len, globalTime); pid is -1 while it is not initialized *)
sjf(P0, globalTime) ==
    LET P == [P0 EXCEPT !.log = [op |-> "sjf", reads |-> <<>>, turn |-> -1,
                                 finished |-> FALSE]]
        k == sjf_scan(P, 0, INT_MAX, -1)
        w == k.P.procArray[k.pid]
        done == [k.P EXCEPT
                   !.proc[w].finishTime = globalTime + k.P.proc[w].remainingTime,
                   !.proc[w].remainingTime = 0,
                   !.log.turn = k.pid, !.log.finished = TRUE]
        moved == sjf_shift(done, 0)
    IN  IF k.P.status = "ub" THEN k.P
        ELSE IF k.pid = -1 \/ w = NULL THEN ub(k.P)
        ELSE IF moved.status = "ub" THEN moved
        ELSE IF moved.len >= cap(moved) THEN ub(moved)
        ELSE [moved EXCEPT !.procArray[moved.len] = NULL]

(* the end of the removal loop: i < arrayIdx - 1, arrayIdx being the pointer *)
rr_remove_end(P) == P.addr - 1

(* the loop that removes slot turn by copying the other slots down *)
RECURSIVE rr_remove(_, _, _, _)
rr_remove(P, turn, i, j) ==
    IF i >= rr_remove_end(P) THEN P
    ELSE IF i = turn THEN rr_remove(P, turn, i + 1, j)
    ELSE IF i >= cap(P) THEN ub(P)
    ELSE rr_remove([P EXCEPT !.procArray[j] = P.procArray[i]], turn, i + 1, j + 1)

(* the end of rr: the time quantum *)
rr_quantum(P) ==
    IF P.tq - 1 <= 0
    THEN [P EXCEPT !.tq = timeQuantum, !.counter = @ + 1]
    ELSE [P EXCEPT !.tq = @ - 1]

(* rr(procArray, arrayIdx, globalTime) *)
rr(P0, globalTime) ==
    LET P == [P0 EXCEPT !.log = [op |-> "rr", reads |-> <<>>, turn |-> -1,
                                 finished |-> FALSE]]
        turn == P.counter % P.len
        w == P.procArray[turn]
        ran == [P EXCEPT !.proc[w].remainingTime = @ - 1, !.log.turn = turn]
        fin == [ran EXCEPT !.proc[w].finishTime = globalTime + 1,
                           !.tq = timeQuantum,
                           !.log.finished = TRUE]
        removed == rr_remove(fin, turn, 0, 0)
    IN  IF P.len = 0 THEN ub(P)
        ELSE IF turn >= cap(P) \/ w = NULL THEN ub(P)
        ELSE IF ran.proc[w].remainingTime <= 0
             THEN IF removed.status = "ub" THEN removed
                  ELSE rr_quantum([removed EXCEPT !.len = @ - 1])
             ELSE rr_quantum(ran)

----------------------------------------------------------------------------
(* memory_simulation.cpp: the MemoryManager.  An object M is               *)
(* [pageTable, freeFrames, PAGE_SIZE, PAGE_COUNT, PHYSICAL_SIZE]; pages    *)
(* and frames are numbered from 0.  A call gives [M, thrown, ret].         *)

pageTableEntry ==
    [modifyBit |-> FALSE, referenceBit |-> FALSE, validBit |-> FALSE,
     readBit |-> FALSE, writeBit |-> FALSE, executeBit |-> FALSE,
     presentBit |-> FALSE, pageFrameNum |-> -1]

(* the constructor with arguments, and _initializeMemory *)
MemoryManager(page_size, num_pages, num_bytes) ==
    [pageTable |-> [i \in 0..(num_pages - 1) |-> pageTableEntry],
     freeFrames |-> [i \in 0..((num_bytes \div page_size) - 1) |-> TRUE],
     PAGE_SIZE |-> page_size, PAGE_COUNT |-> num_pages,
     PHYSICAL_SIZE |-> num_bytes]

allocatePage(M, virtualPageNumber, frameNumber) ==
    IF virtualPageNumber >= M.PAGE_COUNT \/ virtualPageNumber < 0
    THEN [M |-> M, thrown |-> "Invalid virtual page number!", ret |-> -1]
    ELSE IF frameNumber >= (M.PHYSICAL_SIZE \div M.PAGE_SIZE) \/ frameNumber < 0
    THEN [M |-> M, thrown |-> "Invalid frame number!", ret |-> -1]
    ELSE [M |-> [M EXCEPT !.pageTable[virtualPageNumber].validBit = TRUE,
                          !.pageTable[virtualPageNumber].pageFrameNum = frameNumber,
                          !.pageTable[virtualPageNumber].presentBit = TRUE,
                          !.freeFrames[frameNumber] = FALSE],
          thrown |-> "", ret |-> 0]

(* the first loop of allocateAnyPage: the first page that is not valid *)
RECURSIVE find_vpn(_, _)
find_vpn(M, i) ==
    IF i >= M.PAGE_COUNT THEN -1
    ELSE IF M.pageTable[i].validBit # TRUE THEN i
    ELSE find_vpn(M, i + 1)

(* the second loop of allocateAnyPage: the first free frame *)
RECURSIVE find_frame(_, _)
find_frame(M, i) ==
    IF i >= Cardinality(DOMAIN M.freeFrames) THEN -1
    ELSE IF M.freeFrames[i] THEN i
    ELSE find_frame(M, i + 1)

allocateAnyPage(M) ==
    LET vpn == find_vpn(M, 0)
        freeFrame == find_frame(M, 0)
        r == allocatePage(M, vpn, freeFrame)
    IN  IF vpn = -1 THEN [M |-> M, thrown |-> "No free pages!", ret |-> -1]
        ELSE IF freeFrame = -1
        THEN [M |-> M, thrown |-> "No free physical frames!", ret |-> -1]
        ELSE IF r.thrown # "" THEN r
        ELSE [M |-> r.M, thrown |-> "", ret |-> vpn * M.PAGE_SIZE]

----------------------------------------------------------------------------
(* main(): the state machine *)

Cur ==
    [ thr |-> thr, workload |-> workload, ready |-> ready, waiting |-> waiting,
      finished |-> finished, core |-> core, time |-> SIM_TIME, log |-> <<>> ]

Install(m) ==
    /\ thr' = m.thr
    /\ workload' = m.workload
    /\ ready' = m.ready
    /\ waiting' = m.waiting
    /\ finished' = m.finished
    /\ core' = m.core
    /\ SIM_TIME' = m.time

(* simulate_windows is not running *)
WinLocals0 ==
    [arrivals |-> <<>>, ai |-> 1, running |-> -1, slice_start |-> -1, slice_end |-> -1]

WinOff ==
    /\ wpc = "off"
    /\ wprocs = <<>>
    /\ sim = win_init(0)
    /\ win = WinLocals0

(* simulate_cfs is not running *)
CfsLocals0 == [arrivals |-> <<>>, ai |-> 1]

CfsOff ==
    /\ cpc = "off"
    /\ cprocs = <<>>
    /\ cfs = cfs_init(0, 0)
    /\ cloc = CfsLocals0

(* sjf() and rr() are not called *)
PsLog0 == [op |-> "", reads |-> <<>>, turn |-> -1, finished |-> FALSE]

PsOff ==
    /\ ps = [procArray |-> <<>>, proc |-> <<>>, len |-> 0, addr |-> 0,
             counter |-> 0, tq |-> timeQuantum, status |-> "off"]
    /\ pslog = PsLog0

(* no MemoryManager is constructed *)
MmLast0 == [op |-> "", thrown |-> "", ret |-> 0]

MmOff == mm = [on |-> FALSE, M |-> MemoryManager(1, 0, 0), last |-> MmLast0]

RestOff == PsOff /\ MmOff

Arrivals == 0..MaxArrival
Bursts == 1..MaxBurst
AnyBursts == 0..MaxBurst
Entries == Arrivals \X AnyBursts

Init ==
    /\ pc = "setup"
    /\ thr = <<>>
    /\ workload = <<>>
    /\ ready = <<>>
    /\ waiting = <<>>
    /\ finished = <<>>
    /\ core = <<>>
    /\ SIM_TIME = 0
    /\ algo = DISP_SRTCF
    /\ intr = IntrMain
    /\ dlog = <<>>
    /\ WinOff
    /\ CfsOff
    /\ RestOff

(* main adds one more thread of a generated workload (lines 185-196:
   arrival rnd(0, 300), burst rnd(1, 30), within the bounds here) *)
WorkloadAdd ==
    /\ pc = "setup"
    /\ Len(thr) < MaxThreads
    /\ \E a \in Arrivals, b \in Bursts :
          Install(workload_add(Cur, Len(thr) + 1, a, b))
    /\ UNCHANGED <<pc, algo, intr, dlog>>
    /\ UNCHANGED others

(* any caller of the workload api: workload_add with a burst of its choice *)
WorkloadAddAny ==
    /\ pc = "setup"
    /\ Len(thr) < MaxThreads
    /\ \E a \in Arrivals, b \in AnyBursts :
          Install(workload_add(Cur, Len(thr) + 1, a, b))
    /\ UNCHANGED <<pc, algo, intr, dlog>>
    /\ UNCHANGED others

(* manual entry (main, lines 197-203): n, then a stream of entries *)
WorkloadPrompt ==
    /\ pc = "setup"
    /\ thr = <<>>
    /\ \E n \in 1..MaxThreads : \E k \in n..MaxThreads : \E inp \in [1..k -> Entries] :
          LET r == workload_prompt(Cur, n, inp)
          IN  /\ Install(r.m)
              /\ pc' = IF r.rc < 0 THEN "failed" ELSE "loaded"
    /\ UNCHANGED <<algo, intr, dlog>>
    /\ UNCHANGED others

(* the small preset of main (lines 176-184) *)
preset_small(m) ==
    workload_add(workload_add(workload_add(workload_add(m,
        1, 0, 5), 2, 0, 3), 3, 2, 6), 4, 4, 4)

(* main, lines 216-255: cpu_init, SIM_TIME = 0, the admission of tick 0,
   the policy and the interrupt configuration *)
start_sim(m, n) == workload_admit_tick([m EXCEPT !.core = cpu_init(n), !.time = 0], 0)

(* choice 1 of main: the small preset on one core, interrupts off as in
   main, under each policy dispatch_get can return *)
PresetSmall ==
    /\ pc = "setup"
    /\ thr = <<>>
    /\ \E a \in Algos :
          /\ Install(start_sim(preset_small(Cur), 1))
          /\ algo' = a
    /\ intr' = IntrMain
    /\ pc' = "admit"
    /\ UNCHANGED dlog
    /\ UNCHANGED others

Start ==
    /\ pc \in {"setup", "loaded"}
    /\ \E n \in 1..MaxCores, a \in Algos, ic \in IntrConfigs :
          /\ Install(start_sim(Cur, n))
          /\ algo' = a
          /\ intr' = ic
    /\ pc' = "admit"
    /\ UNCHANGED dlog
    /\ UNCHANGED others

Admit ==
    /\ pc = "admit"
    /\ Install(workload_admit_tick(Cur, SIM_TIME))
    /\ pc' = "resolve"
    /\ UNCHANGED <<algo, intr, dlog>>
    /\ UNCHANGED others

Resolve ==
    /\ pc = "resolve"
    /\ Install(waiting_io_resolve(Cur, SIM_TIME))
    /\ pc' = "interrupts"
    /\ UNCHANGED <<algo, intr, dlog>>
    /\ UNCHANGED others

(* the values rand() gives to one core: r = rand() % 100, x for rnd *)
Draws == [r : RandPct, x : 0..(MaxIo - 1)]

Interrupts ==
    /\ pc = "interrupts"
    /\ \E draws \in [1..ncores -> Draws] :
          Install(random_interrupts(intr, Cur, draws))
    /\ pc' = "dispatch"
    /\ UNCHANGED <<algo, intr, dlog>>
    /\ UNCHANGED others

Dispatch ==
    /\ pc = "dispatch"
    /\ LET m == schedule(algo, Cur)
       IN  Install(m) /\ dlog' = m.log
    /\ pc' = "bump"
    /\ UNCHANGED <<algo, intr>>
    /\ UNCHANGED others

(* the accrual step charging the threads of Waiting as well *)
BumpWait_also_waiting ==
    /\ pc = "bump"
    /\ Install([bump_queue_wait(Cur) EXCEPT
                   !.thr = [t \in DOMAIN @ |->
                              IF \E i \in DOMAIN waiting : waiting[i] = t
                              THEN [@[t] EXCEPT !.wait_time = @ + 1]
                              ELSE @[t]]])
    /\ pc' = "step"
    /\ UNCHANGED <<algo, intr, dlog>>
    /\ UNCHANGED others

(* the accrual step not charging the threads preempted in this tick *)
BumpWait_skips_preempted ==
    /\ pc = "bump"
    /\ Install([bump_queue_wait(Cur) EXCEPT
                   !.thr = [t \in DOMAIN @ |->
                              IF \E k \in DOMAIN dlog :
                                     dlog[k].op = "preempt" /\ dlog[k].tid = t
                              THEN thr[t]
                              ELSE @[t]]])
    /\ pc' = "step"
    /\ UNCHANGED <<algo, intr, dlog>>
    /\ UNCHANGED others

(* the accrual step followed by the random interrupts, which belong before
   the dispatch *)
BumpWait_then_interrupts ==
    /\ pc = "bump"
    /\ \E draws \in [1..Len(core) -> [r : RandPct, x : 0..(MaxIo - 1)]] :
          Install(random_interrupts(intr, bump_queue_wait(Cur), draws))
    /\ pc' = "step"
    /\ UNCHANGED <<algo, intr, dlog>>
    /\ UNCHANGED others

BumpWait ==
    /\ pc = "bump"
    /\ Install(bump_queue_wait(Cur))
    /\ pc' = "step"
    /\ UNCHANGED <<algo, intr, dlog>>
    /\ UNCHANGED others

Step ==
    /\ pc = "step"
    /\ Install(cpu_step(Cur))
    /\ pc' = "collect"
    /\ UNCHANGED <<algo, intr, dlog>>
    /\ UNCHANGED others

Collect ==
    /\ pc = "collect"
    /\ Install(collect_completions(Cur))
    /\ pc' = "all_done"
    /\ UNCHANGED <<algo, intr, dlog>>
    /\ UNCHANGED others

AllDone ==
    /\ pc = "all_done"
    /\ pc' = IF all_done(Cur) THEN "done" ELSE "admit"
    /\ UNCHANGED <<thr, workload, ready, waiting, finished, core, SIM_TIME, algo, intr, dlog>>
    /\ UNCHANGED others

Tick == Admit \/ Resolve \/ Interrupts \/ Dispatch \/ BumpWait \/ Step \/ Collect \/ AllDone

(* the program: a workload main can build, then the loop *)
Next == WorkloadAdd \/ WorkloadPrompt \/ PresetSmall \/ Start \/ Tick

Spec == Init /\ [][Next]_vars

(* the workload api under any caller, then the loop *)
NextApi == WorkloadAddAny \/ Start \/ Tick

SpecApi == Init /\ [][NextApi]_vars

----------------------------------------------------------------------------
(* dispatch on its own: any contents of Ready and of the cores *)

(* one more thread than the workloads of Spec, so that every core of a
   MaxCores machine can be preempted in one call *)
DispatchThreads == MaxThreads + 1

(* the core that holds the k-th running thread, when the cores of occ are
   occupied: the k-th smallest element of occ *)
CoreOfRank(occ, k) ==
    CHOOSE c \in occ : Cardinality({ d \in occ : d <= c }) = k

(* dispatch reads no thread id: every content of Ready and of the cores is a
   renaming of one in which the running threads are 1..k, in the order of
   their cores, and Ready holds k+1..n in that order *)
InitDispatch ==
    \E n \in 0..DispatchThreads, nc \in 1..MaxCores :
    \E shape \in [1..n -> { e \in AnyBursts \X Bursts : e[1] <= e[2] }] :
    \E occ \in SUBSET (1..nc) :
       /\ Cardinality(occ) <= n
       /\ pc = "dispatch"
       /\ thr = [t \in 1..n |->
                   [make_thread(t, 0, shape[t][2]) EXCEPT
                       !.remaining = shape[t][1],
                       !.state = IF t > Cardinality(occ) THEN ST_READY ELSE ST_RUNNING,
                       !.start_time = IF t > Cardinality(occ) THEN Unset ELSE 0]]
       /\ ready = [i \in 1..(n - Cardinality(occ)) |-> Cardinality(occ) + i]
       /\ core = [c \in 1..nc |->
                    IF c \in occ THEN Cardinality({ d \in occ : d <= c }) ELSE NULL]
       /\ workload = <<>>
       /\ waiting = <<>>
       /\ finished = <<>>
       /\ SIM_TIME = 1
       /\ algo \in Algos
       /\ intr = IntrMain
       /\ dlog = <<>>
       /\ WinOff
       /\ CfsOff
       /\ RestOff

NextDispatch == Dispatch

SpecDispatch == InitDispatch /\ [][NextDispatch]_vars

----------------------------------------------------------------------------
(* main() on a long job: manual entry of one thread whose burst reaches the
   length of the trace rows, then the configuration main has in its text
   (SRTCF, interrupts off) on the number of cores entered *)

LongBursts == {MAX_TICKS, MAX_TICKS + 1}

WorkloadPromptLong ==
    /\ pc = "setup"
    /\ thr = <<>>
    /\ \E b \in LongBursts :
          LET r == workload_prompt(Cur, 1, << <<0, b>> >>)
          IN  /\ Install(r.m)
              /\ pc' = IF r.rc < 0 THEN "failed" ELSE "loaded"
    /\ UNCHANGED <<algo, intr, dlog>>
    /\ UNCHANGED others

StartMain ==
    /\ pc = "loaded"
    /\ \E n \in 1..MaxCores : Install(start_sim(Cur, n))
    /\ algo' = DISP_SRTCF
    /\ intr' = IntrMain
    /\ pc' = "admit"
    /\ UNCHANGED dlog
    /\ UNCHANGED others

(* one pass of the main loop, from the admission to the test of all_done *)
loop_pass(a, cfg, m, draws) ==
    collect_completions(cpu_step(bump_queue_wait(
        schedule(a, random_interrupts(cfg,
            waiting_io_resolve(workload_admit_tick(m, m.time), m.time), draws)))))

(* rand() is called only when the interrupts are enabled *)
PassDraws ==
    IF intr.enable_random THEN [1..ncores -> Draws]
    ELSE {[c \in 1..ncores |-> [r |-> 0, x |-> 0]]}

LoopPass ==
    /\ pc = "admit"
    /\ \E draws \in PassDraws :
          LET m == loop_pass(algo, intr, Cur, draws)
          IN  /\ Install(m)
              /\ dlog' = m.log
              /\ pc' = IF all_done(m) THEN "done" ELSE "admit"
    /\ UNCHANGED <<algo, intr>>
    /\ UNCHANGED others

NextLong == WorkloadPromptLong \/ StartMain \/ LoopPass

SpecLong == Init /\ [][NextLong]_vars

----------------------------------------------------------------------------
(* simulate_windows(procs, n, cs_cost): one step per pass of its main loop *)

WCur ==
    [ p |-> wprocs, sim |-> sim, arrivals |-> win.arrivals, ai |-> win.ai,
      running |-> win.running, slice_start |-> win.slice_start,
      slice_end |-> win.slice_end ]

WInstall(W) ==
    /\ wprocs' = W.p
    /\ sim' = W.sim
    /\ win' = [arrivals |-> W.arrivals, ai |-> W.ai, running |-> W.running,
               slice_start |-> W.slice_start, slice_end |-> W.slice_end]

(* the arguments of a call: the workload of main, or up to WinMaxProcs
   processes with pid = index + 1 as in work[] *)
WinArrivals == 0..WinMaxArrival
WinBursts == {2, 7, 14}
WinPrios == {0, 8, 15}
WinCsCosts == 0..WinMaxCs

WinShapes ==
    UNION { [1..n -> [arrival : WinArrivals, burst : WinBursts, base_prio : WinPrios]]
              : n \in 1..WinMaxProcs }

WinWorkloads ==
    {work} \cup
    { [i \in DOMAIN g |->
          [pid |-> i, arrival |-> g[i].arrival, burst |-> g[i].burst,
           base_prio |-> g[i].base_prio, nice |-> 0]] : g \in WinShapes }

(* the state at the first pass of the loop: reset, win_init, sorted arrivals *)
InitWin ==
    /\ pc = "setup"
    /\ thr = <<>>
    /\ workload = <<>>
    /\ ready = <<>>
    /\ waiting = <<>>
    /\ finished = <<>>
    /\ core = <<>>
    /\ SIM_TIME = 0
    /\ algo = DISP_SRTCF
    /\ intr = IntrMain
    /\ dlog = <<>>
    /\ CfsOff
    /\ RestOff
    /\ wpc = "loop"
    /\ \E w \in WinWorkloads, cs \in WinCsCosts :
          /\ wprocs = reset(w)
          /\ sim = win_init(cs)
          /\ win = [WinLocals0 EXCEPT !.arrivals = sort_arrivals(wprocs)]

(* a pass that finds the CPU free and nothing ready: jump to the next
   arrival and start over (continue) *)
WinIdle ==
    /\ wpc = "loop"
    /\ LET H == loop_head(WCur)
       IN  /\ H.running = -1
           /\ must_idle(H)
           /\ WInstall([H EXCEPT !.sim.now = H.arrivals[H.ai].t])
    /\ UNCHANGED wpc
    /\ UNCHANGED schedvars
    /\ UNCHANGED cfsvars
    /\ UNCHANGED restvars

(* a pass that finds the CPU free and nothing left to run: break *)
WinBreak ==
    /\ wpc = "loop"
    /\ LET H == loop_head(WCur)
           k == win_pick(H)
       IN  /\ H.running = -1
           /\ ~must_idle(H)
           /\ k.idx = -1
           /\ WInstall(k.W)
    /\ wpc' = "done"
    /\ UNCHANGED schedvars
    /\ UNCHANGED cfsvars
    /\ UNCHANGED restvars

(* a pass that finds the CPU free and dispatches the picked process *)
WinDispatch ==
    /\ wpc = "loop"
    /\ LET H == loop_head(WCur)
           k == win_pick(H)
       IN  /\ H.running = -1
           /\ ~must_idle(H)
           /\ k.idx # -1
           /\ WInstall(next_event(start_slice(k.W, k.idx, k.q)))
    /\ UNCHANGED wpc
    /\ UNCHANGED schedvars
    /\ UNCHANGED cfsvars
    /\ UNCHANGED restvars

(* a pass in the middle of a slice (an arrival): nothing is dispatched *)
WinMidSlice ==
    /\ wpc = "loop"
    /\ LET H == loop_head(WCur)
       IN  /\ H.running # -1
           /\ WInstall(next_event(H))
    /\ UNCHANGED wpc
    /\ UNCHANGED schedvars
    /\ UNCHANGED cfsvars
    /\ UNCHANGED restvars

NextWin == WinIdle \/ WinBreak \/ WinDispatch \/ WinMidSlice

SpecWin == InitWin /\ [][NextWin]_vars

----------------------------------------------------------------------------
(* simulate_cfs(procs, n, cs_cost, sched_period): one step per pass of its
   main loop *)

CCur == [ p |-> cprocs, sim |-> cfs, arrivals |-> cloc.arrivals, ai |-> cloc.ai ]

CInstall(C) ==
    /\ cprocs' = C.p
    /\ cfs' = C.sim
    /\ cloc' = [arrivals |-> C.arrivals, ai |-> C.ai]

(* the arguments of a call: the workload of main, or up to WinMaxProcs
   processes with pid = index + 1 as in work[]; main passes the period 24 *)
CfsBursts == {1, 4, 9}
CfsNices == {-20, 0}
CfsPeriods == {4, 24}

CfsShapes ==
    UNION { [1..n -> [arrival : WinArrivals, burst : CfsBursts, nice : CfsNices]]
              : n \in 1..WinMaxProcs }

CfsWorkloads ==
    {work} \cup
    { [i \in DOMAIN g |->
          [pid |-> i, arrival |-> g[i].arrival, burst |-> g[i].burst,
           base_prio |-> 8, nice |-> g[i].nice]] : g \in CfsShapes }

(* the state at the first pass of the loop: reset, cfs_init, sorted arrivals *)
InitCfs ==
    /\ pc = "setup"
    /\ thr = <<>>
    /\ workload = <<>>
    /\ ready = <<>>
    /\ waiting = <<>>
    /\ finished = <<>>
    /\ core = <<>>
    /\ SIM_TIME = 0
    /\ algo = DISP_SRTCF
    /\ intr = IntrMain
    /\ dlog = <<>>
    /\ WinOff
    /\ RestOff
    /\ cpc = "loop"
    /\ \E w \in CfsWorkloads, cs \in WinCsCosts, period \in CfsPeriods :
          /\ cprocs = reset(w)
          /\ cfs = cfs_init(cs, period)
          /\ cloc = [CfsLocals0 EXCEPT !.arrivals = sort_arrivals(cprocs)]

(* a pass that finds the run queue empty and arrivals to come: jump to the
   next arrival and start over (continue) *)
CfsIdle ==
    /\ cpc = "loop"
    /\ LET H == cfs_arrivals(CCur)
       IN  /\ Len(H.sim.runq) = 0
           /\ H.ai <= Len(H.arrivals)
           /\ CInstall([H EXCEPT !.sim.now = H.arrivals[H.ai].t])
    /\ UNCHANGED cpc
    /\ UNCHANGED schedvars
    /\ UNCHANGED winvars
    /\ UNCHANGED restvars

(* a pass that finds nothing left to run, or whose cfs_pick fails: break *)
CfsBreak ==
    /\ cpc = "loop"
    /\ LET H == cfs_arrivals(CCur)
           k == cfs_pick(H)
       IN  /\ \/ Len(H.sim.runq) = 0 /\ H.ai > Len(H.arrivals)
              \/ Len(H.sim.runq) # 0 /\ ~k.ok
           /\ CInstall(H)
    /\ cpc' = "done"
    /\ UNCHANGED schedvars
    /\ UNCHANGED winvars
    /\ UNCHANGED restvars

(* a pass that picks a process and runs its slice *)
CfsRun ==
    /\ cpc = "loop"
    /\ LET H == cfs_arrivals(CCur)
           k == cfs_pick(H)
       IN  /\ Len(H.sim.runq) # 0
           /\ k.ok
           /\ CInstall(cfs_run(k.C, k.idx, k.slice))
    /\ UNCHANGED cpc
    /\ UNCHANGED schedvars
    /\ UNCHANGED winvars
    /\ UNCHANGED restvars

NextCfs == CfsIdle \/ CfsBreak \/ CfsRun

SpecCfs == InitCfs /\ [][NextCfs]_vars

(* either simulator of cpu_sim.c, called with any of the arguments above *)
InitSims == InitWin \/ InitCfs

NextSims == NextWin \/ NextCfs

SpecSims == InitSims /\ [][NextSims]_vars

----------------------------------------------------------------------------
(* sjf() and rr() called on an array of processes: one step per call *)

SchedOff ==
    /\ pc = "setup"
    /\ thr = <<>>
    /\ workload = <<>>
    /\ ready = <<>>
    /\ waiting = <<>>
    /\ finished = <<>>
    /\ core = <<>>
    /\ SIM_TIME = 0
    /\ algo = DISP_SRTCF
    /\ intr = IntrMain
    /\ dlog = <<>>

PCur ==
    [ procArray |-> ps.procArray, proc |-> ps.proc, len |-> ps.len,
      addr |-> ps.addr, counter |-> ps.counter, tq |-> ps.tq,
      status |-> ps.status, log |-> pslog ]

(* what undefined behaviour may come to: the process is killed, or it goes
   on with a memory that nothing can be said about *)
UBOutcomes == {"crashed", "corrupt"}

PInstall(P) ==
    /\ pslog' = P.log
    /\ \E o \in (IF P.status = "ub" THEN UBOutcomes ELSE {P.status}) :
          ps' = [procArray |-> P.procArray, proc |-> P.proc, len |-> P.len,
                 addr |-> P.addr, counter |-> P.counter, tq |-> P.tq,
                 status |-> o]

(* the value of the pointer len (arrayIdx): past every index of the array *)
Addresses == {PCap + 2, PCap + 3}

(* the arguments: n processes in the slots 0..n-1 of an array of c slots,
   the other slots NULL or a pointer left over *)
PArrays ==
    UNION { [0..(c - 1) -> 0..PMaxProcs] : c \in 1..PCap }

InitProc ==
    /\ SchedOff
    /\ WinOff
    /\ CfsOff
    /\ MmOff
    /\ pslog = PsLog0
    /\ \E n \in 0..PMaxProcs, a \in PArrays, ad \in Addresses,
          rem \in [1..PMaxProcs -> 1..PMaxRemaining] :
          /\ n <= Cardinality(DOMAIN a)
          /\ \A i \in DOMAIN a : IF i < n THEN a[i] = i + 1 ELSE a[i] <= n
          /\ \A w \in (n + 1)..PMaxProcs : rem[w] = 1
          /\ ps = [procArray |-> a,
                   proc |-> [w \in 1..PMaxProcs |->
                                [remainingTime |-> rem[w], finishTime |-> 0]],
                   len |-> n, addr |-> ad, counter |-> 0, tq |-> timeQuantum,
                   status |-> "ok"]

Sjf ==
    /\ ps.status = "ok"
    /\ \E globalTime \in 0..PMaxTime : PInstall(sjf(PCur, globalTime))
    /\ UNCHANGED <<schedvars, winvars, cfsvars, mm>>

Rr ==
    /\ ps.status = "ok"
    /\ \E globalTime \in 0..PMaxTime : PInstall(rr(PCur, globalTime))
    /\ UNCHANGED <<schedvars, winvars, cfsvars, mm>>

NextProc == Sjf \/ Rr

SpecProc == InitProc /\ [][NextProc]_vars

----------------------------------------------------------------------------
(* A MemoryManager and calls of its allocation methods: one step per call *)

InitMm ==
    /\ SchedOff
    /\ WinOff
    /\ CfsOff
    /\ PsOff
    /\ \E num_pages \in 1..MmMaxPages, frames \in 1..MmMaxFrames :
          mm = [on |-> TRUE,
                M |-> MemoryManager(MmPageSize, num_pages, frames * MmPageSize),
                last |-> MmLast0]

AllocatePage ==
    /\ mm.on
    /\ \E virtualPageNumber \in -1..MmMaxPages, frameNumber \in -1..MmMaxFrames :
          LET r == allocatePage(mm.M, virtualPageNumber, frameNumber)
          IN  mm' = [on |-> TRUE, M |-> r.M,
                     last |-> [op |-> "allocatePage", thrown |-> r.thrown,
                               ret |-> r.ret]]
    /\ UNCHANGED <<schedvars, winvars, cfsvars, psvars>>

AllocateAnyPage ==
    /\ mm.on
    /\ LET r == allocateAnyPage(mm.M)
       IN  mm' = [on |-> TRUE, M |-> r.M,
                  last |-> [op |-> "allocateAnyPage", thrown |-> r.thrown,
                            ret |-> r.ret]]
    /\ UNCHANGED <<schedvars, winvars, cfsvars, psvars>>

NextMm == AllocatePage \/ AllocateAnyPage

SpecMm == InitMm /\ [][NextMm]_vars

----------------------------------------------------------------------------
(* Vocabulary of the properties *)

Tids == DOMAIN thr

InQ(q, t) == \E i \in DOMAIN q : q[i] = t

OnCore(t) == \E c \in DOMAIN core : core[c] = t

Occurrences(q, t) == Cardinality({i \in DOMAIN q : q[i] = t})

(* in how many places thread t is held *)
Places(t) ==
    Occurrences(workload, t) + Occurrences(ready, t) + Occurrences(waiting, t)
    + Occurrences(finished, t) + Occurrences(core, t)

Running == pc \notin {"setup", "loaded", "failed"}

NoInterrupts == ~intr.enable_random

(* i entered Ready before j: earlier arrival, or the same and added first *)
Before(i, j) ==
    \/ thr[i].arrival_time < thr[j].arrival_time
    \/ thr[i].arrival_time = thr[j].arrival_time /\ i < j

Started(t) == thr[t].start_time # Unset

IsPresetSmall ==
    /\ Len(thr) = 4
    /\ [t \in 1..4 |-> <<thr[t].arrival_time, thr[t].burst_time>>]
          = << <<0, 5>>, <<0, 3>>, <<2, 6>>, <<4, 4>> >>

FinishTimes == [t \in Tids |-> thr[t].finish_time]

Binds == { dlog[k].tid : k \in { k \in DOMAIN dlog : dlog[k].op = "bind" } }

Preempted == { dlog[k].tid : k \in { k \in DOMAIN dlog : dlog[k].op = "preempt" } }

----------------------------------------------------------------------------
(* C1. Partition invariant: between any two steps of the main loop, and so
   at every tick boundary, every thread added to the workload is held in
   exactly one of the workload, Ready, Waiting, Finished and the core slots:
   none is in two places, none is lost. *)
C1_Partition == \A t \in Tids : Places(t) = 1

(* a tick boundary with threads waiting, running and finished at once *)
C1_Witness ==
    /\ pc = "admit"
    /\ SIM_TIME > 0
    /\ waiting # <<>>
    /\ finished # <<>>
    /\ \E c \in DOMAIN core : core[c] # NULL

(* C2. SRTCF post-condition: when dispatch_srtcf returns, no thread in
   Ready has a remaining strictly smaller than that of a thread bound to a
   core, whatever Ready and the cores held before the call. *)
C2_SrtcfPost ==
    (pc = "bump" /\ algo = DISP_SRTCF) =>
        \A r \in Tids, c \in DOMAIN core :
            (InQ(ready, r) /\ core[c] # NULL) =>
                thr[r].remaining >= thr[core[c]].remaining

(* a return of dispatch_srtcf that preempted and left a thread in Ready *)
C2_Witness ==
    /\ pc = "bump"
    /\ algo = DISP_SRTCF
    /\ Preempted # {}
    /\ Len(ready) >= 2
    /\ \A c \in DOMAIN core : core[c] # NULL

(* C3. When the main loop exits, every thread added to the workload is in
   the Finished queue with state Finished. *)
C3_AllFinishedAtExit ==
    pc = "done" =>
        \A t \in Tids : thr[t].state = ST_FINISHED /\ InQ(finished, t)

(* C4. FIFO, one core, interrupts off: threads are bound in the order they
   entered Ready (arrival time, then workload order), a bound thread runs
   to completion without leaving the core, and the small preset finishes
   at A=5, B=8, C=14, D=18. *)
C4_Fifo ==
    (Running /\ algo = DISP_FIFO /\ ncores = 1 /\ NoInterrupts) =>
        /\ \A i, j \in Tids :
              (Before(i, j) /\ Started(j)) =>
                  (Started(i) /\ thr[i].start_time < thr[j].start_time)
        /\ \A t \in Tids :
              /\ thr[t].state = ST_READY =>
                    (~Started(t) /\ thr[t].remaining = thr[t].burst_time)
              /\ thr[t].state = ST_FINISHED =>
                    thr[t].finish_time = thr[t].start_time + thr[t].burst_time
        /\ (pc = "done" /\ IsPresetSmall) => FinishTimes = <<5, 8, 14, 18>>

(* the small preset run to its end under FIFO *)
C4_Witness ==
    /\ pc = "done"
    /\ algo = DISP_FIFO
    /\ IsPresetSmall
    /\ thr[4].finish_time = 18

(* C5. SJF, one core, interrupts off: the thread bound to the idle core is
   the Ready thread of smallest burst_time, the earliest queued on ties; it
   runs to completion; the small preset finishes at B=3, A=8, D=12, C=18. *)
C5_Sjf ==
    (Running /\ algo = DISP_SJF /\ ncores = 1 /\ NoInterrupts) =>
        /\ pc = "bump" =>
              \A b \in Binds, r \in Tids :
                  InQ(ready, r) =>
                      \/ thr[b].burst_time < thr[r].burst_time
                      \/ thr[b].burst_time = thr[r].burst_time /\ Before(b, r)
        /\ \A t \in Tids :
              /\ thr[t].state = ST_READY =>
                    (~Started(t) /\ thr[t].remaining = thr[t].burst_time)
              /\ thr[t].state = ST_FINISHED =>
                    thr[t].finish_time = thr[t].start_time + thr[t].burst_time
        /\ (pc = "done" /\ IsPresetSmall) => FinishTimes = <<8, 3, 18, 12>>

(* the small preset run to its end under SJF *)
C5_Witness ==
    /\ pc = "done"
    /\ algo = DISP_SJF
    /\ IsPresetSmall
    /\ thr[3].finish_time = 18

(* C6. Monotonicity: in every step a thread's remaining does not increase,
   its wait_time does not decrease, and start_time and finish_time, once
   set, keep their value. *)
C6_StepMonotone ==
    \A t \in Tids \cap DOMAIN thr' :
        /\ thr'[t].remaining <= thr[t].remaining
        /\ thr'[t].wait_time >= thr[t].wait_time
        /\ thr[t].start_time # Unset => thr'[t].start_time = thr[t].start_time
        /\ thr[t].finish_time # Unset => thr'[t].finish_time = thr[t].finish_time

(* C6 as a property of every step of the simulation: remaining never
   increases, wait_time never decreases, set start and finish times stay *)
C6_Monotone == [][C6_StepMonotone]_vars

(* a thread that was interrupted, waited in Ready, and runs again *)
C6_Witness ==
    \E t \in Tids :
        /\ thr[t].state = ST_RUNNING
        /\ thr[t].unblocked_at # Unset
        /\ thr[t].start_time < SIM_TIME
        /\ thr[t].wait_time > 0
        /\ 0 < thr[t].remaining /\ thr[t].remaining < thr[t].burst_time
        /\ \E u \in Tids : thr[u].finish_time # Unset

(* C7. Thread state machine: a step changes a thread's state only along
   New->Ready, Ready->Running, Running->Ready, Running->Waiting,
   Waiting->Ready, Running->Finished; a Finished thread keeps its state and
   its place in the Finished queue; after every step the state of a thread
   names the place that holds it. *)
Transitions ==
    { <<ST_NEW, ST_READY>>, <<ST_READY, ST_RUNNING>>, <<ST_RUNNING, ST_READY>>,
      <<ST_RUNNING, ST_WAITING>>, <<ST_WAITING, ST_READY>>,
      <<ST_RUNNING, ST_FINISHED>> }

PlaceOf(t) ==
    CASE InQ(workload, t) -> ST_NEW
      [] InQ(ready, t)    -> ST_READY
      [] InQ(waiting, t)  -> ST_WAITING
      [] InQ(finished, t) -> ST_FINISHED
      [] OnCore(t)        -> ST_RUNNING
      [] OTHER            -> "nowhere"

C7_StepStates ==
    \A t \in Tids \cap DOMAIN thr' :
        /\ thr'[t].state = thr[t].state \/ <<thr[t].state, thr'[t].state>> \in Transitions
        /\ thr[t].state = ST_FINISHED =>
              (thr'[t].state = ST_FINISHED /\ InQ(finished, t) /\ InQ(finished', t))
        /\ thr'[t].state = PlaceOf(t)'

(* C7 as a property of every step of the simulation: only the six legal
   state changes occur, and Finished is terminal *)
C7_StateMachine == [][C7_StepStates]_vars

(* a thread that went through Waiting and Ready again and is Finished *)
C7_Witness ==
    \E t \in Tids :
        /\ thr[t].state = ST_FINISHED
        /\ thr[t].unblocked_at # Unset
        /\ thr[t].wait_time > 0
        /\ Preempted # {}

(* C8. A thread with burst_time = 0 is rejected at admission: it is never
   in Ready nor on a core. *)
C8_ZeroBurstRejected ==
    \A t \in Tids :
        thr[t].burst_time = 0 => (~InQ(ready, t) /\ ~OnCore(t))

(* C9. Tie ordering: with interrupts off, of two threads with the same
   arrival_time and the same burst_time the one added to the workload first
   is first bound no later than the other. *)
C9_TieOrder ==
    (Running /\ NoInterrupts) =>
        \A i, j \in Tids :
            ( /\ i < j
              /\ thr[i].arrival_time = thr[j].arrival_time
              /\ thr[i].burst_time = thr[j].burst_time
              /\ Started(j) ) =>
                (Started(i) /\ thr[i].start_time <= thr[j].start_time)

(* C11. Termination: the clock of a run never passes the latest arrival plus
   the ticks its threads can run and wait for I/O, the loop is always in one
   of its eight phases or stopped, and it stops only in a state where Ready
   and Waiting are empty and every core is idle. *)
RECURSIVE BurstSum(_)
BurstSum(n) == IF n = 0 THEN 0 ELSE thr[n].burst_time + BurstSum(n - 1)

LastArrival ==
    IF Tids = {} THEN 0
    ELSE CHOOSE a \in { thr[t].arrival_time : t \in Tids } :
             \A t \in Tids : thr[t].arrival_time <= a

(* the first pass always runs; every other tick runs a thread, or waits for
   an arrival or for an I/O; a thread is interrupted at most once per tick it
   has run but the last *)
TickBound ==
    1 + LastArrival + BurstSum(Len(thr))
      + (IF intr.enable_random
         THEN intr.io_max * (BurstSum(Len(thr)) - Len(thr))
         ELSE 0)

(* the phases of one pass of the loop; each has exactly one next step *)
LoopPhases ==
    {"admit", "resolve", "interrupts", "dispatch", "bump", "step", "collect", "all_done"}

C11_Terminates ==
    Running =>
        /\ SIM_TIME <= TickBound
        /\ pc \in LoopPhases \cup {"done"}
        /\ pc = "done" =>
              (q_empty(ready) /\ q_empty(waiting) /\ \A c \in DOMAIN core : core[c] = NULL)

(* a run that stopped with every thread finished after interrupts and a late
   arrival *)
C11_Witness ==
    /\ pc = "done"
    /\ intr.enable_random
    /\ Len(finished) = MaxThreads
    /\ \E t \in Tids : thr[t].arrival_time > 0
    /\ \E t \in Tids : thr[t].unblocked_at # Unset
    /\ ncores = 1

(* C13. remaining changes only in the core step, by exactly one, and only
   for a thread bound to a core: admission, waiting resolution, interruption,
   dispatch (SRTCF preemption included), wait accrual and collection leave
   every remaining as it was. *)
C13_StepRemaining ==
    \A t \in Tids \cap DOMAIN thr' :
        thr'[t].remaining =
            IF pc = "step" /\ OnCore(t) THEN thr[t].remaining - 1 ELSE thr[t].remaining

C13_RemainingOnlyInStep == [][C13_StepRemaining]_vars

(* after a dispatch: a thread preempted with part of its burst done, and a
   thread interrupted with part of its burst done *)
C13_Witness ==
    /\ pc = "bump"
    /\ \E t \in Preempted :
          0 < thr[t].remaining /\ thr[t].remaining < thr[t].burst_time
    /\ \E u \in Tids :
          /\ InQ(waiting, u)
          /\ 0 < thr[u].remaining /\ thr[u].remaining < thr[u].burst_time

(* C14. dispatch_fifo and dispatch_sjf never preempt: a core that holds a
   thread before the call holds the same thread after it, and the only
   change is that threads leave Ready, the others keeping their order, for
   cores that were idle. *)
NewlyBound == { core'[c] : c \in { c \in DOMAIN core : core[c] = NULL } } \ {NULL}

StaysQueued(t) == t \notin NewlyBound

C14_StepNoPreempt ==
    (pc = "dispatch" /\ algo \in {DISP_FIFO, DISP_SJF}) =>
        /\ \A c \in DOMAIN core : core[c] # NULL => core'[c] = core[c]
        /\ \A t \in NewlyBound : InQ(ready, t)
        /\ ready' = SelectSeq(ready, StaysQueued)
        /\ UNCHANGED <<workload, waiting, finished, SIM_TIME>>
        /\ \A t \in Tids :
              thr'[t] =
                  IF t \in NewlyBound
                  THEN [thr[t] EXCEPT
                           !.state = ST_RUNNING,
                           !.start_time = IF @ = Unset THEN SIM_TIME ELSE @]
                  ELSE thr[t]

C14_NoPreemption == [][C14_StepNoPreempt]_vars

(* after a call of dispatch_sjf: one core kept a thread longer than a job
   still in Ready, the other core was idle and took a thread *)
C14_Witness ==
    /\ pc = "bump"
    /\ algo = DISP_SJF
    /\ Binds # {}
    /\ \E c \in DOMAIN core, r \in Tids :
          /\ core[c] # NULL /\ core[c] \notin Binds
          /\ InQ(ready, r)
          /\ thr[r].burst_time < thr[core[c]].burst_time

(* C15. SRTCF no-op frame: when a call of dispatch_srtcf finds no idle core
   and no running thread with remaining greater than that of the best Ready
   candidate, Ready holds the same threads in the same order after the call
   and every core holds the same thread. *)
NothingToDo ==
    /\ ~q_empty(ready)
    /\ \A c \in DOMAIN core : core[c] # NULL
    /\ \A c \in DOMAIN core, r \in DOMAIN ready :
          thr[core[c]].remaining <= thr[ready[r]].remaining

C15_StepNoOp ==
    (pc = "dispatch" /\ algo = DISP_SRTCF /\ NothingToDo) =>
        (ready' = ready /\ core' = core)

C15_SrtcfNoOpFrame == [][C15_StepNoOp]_vars

(* the cores after the first k binds and preemptions of a call that started
   with the cores c0 *)
RECURSIVE CoresAfter(_, _, _)
CoresAfter(c0, log, k) ==
    IF k = 0 THEN c0
    ELSE [CoresAfter(c0, log, k - 1) EXCEPT
             ![log[k].core] = IF log[k].op = "bind" THEN log[k].tid ELSE NULL]

(* C16. SRTCF victim selection: at each preemption of a call no core is
   idle, the victim has the greatest remaining of all running threads and
   the lowest core index among those, the candidate bound in its place has
   strictly smaller remaining; so a running thread whose remaining equals
   the candidate's is never preempted. *)
C16_StepVictim ==
    (pc = "dispatch" /\ algo = DISP_SRTCF) =>
        \A k \in DOMAIN dlog' :
            dlog'[k].op = "preempt" =>
                LET before == CoresAfter(core, dlog', k - 1)
                    c == dlog'[k].core
                    v == dlog'[k].tid
                IN  /\ before[c] = v
                    /\ k + 1 \in DOMAIN dlog'
                    /\ dlog'[k + 1].op = "bind" /\ dlog'[k + 1].core = c
                    /\ thr[v].remaining > thr[dlog'[k + 1].tid].remaining
                    /\ \A d \in DOMAIN core :
                          /\ before[d] # NULL
                          /\ thr[before[d]].remaining <= thr[v].remaining
                          /\ d < c => thr[before[d]].remaining < thr[v].remaining

C16_VictimSelection == [][C16_StepVictim]_vars

(* after a call of dispatch_srtcf on two cores: the thread of the first core
   was preempted, the thread of the second core has the same remaining and
   kept its core *)
C16_Witness ==
    /\ pc = "bump"
    /\ algo = DISP_SRTCF
    /\ ncores = MaxCores
    /\ \E k \in DOMAIN dlog :
          /\ dlog[k].op = "preempt"
          /\ dlog[k].core = 1
          /\ core[MaxCores] # NULL
          /\ core[MaxCores] \notin Binds
          /\ thr[core[MaxCores]].remaining = thr[dlog[k].tid].remaining

(* C17. A call of dispatch_srtcf makes at most ncores preemptions before it
   returns: no core is preempted twice in one call. *)
PreemptEvents == { k \in DOMAIN dlog : dlog[k].op = "preempt" }

C17_BoundedChain ==
    (pc = "bump" /\ algo = DISP_SRTCF) =>
        /\ Cardinality(PreemptEvents) <= ncores
        /\ \A j, k \in PreemptEvents : dlog[j].core = dlog[k].core => j = k

(* a call on MaxCores cores that preempted the thread of every core *)
C17_Witness ==
    /\ pc = "bump"
    /\ algo = DISP_SRTCF
    /\ ncores = MaxCores
    /\ Cardinality(PreemptEvents) = MaxCores

(* C18. Binding precondition: every bind of a dispatch call, under each
   policy, is made on a slot that is idle at that moment; no running thread
   is overwritten: after the call every thread is still held in exactly one
   place. *)
BindEvents == { k \in DOMAIN dlog : dlog[k].op = "bind" }

C18_BindsIdleSlot ==
    pc = "bump" =>
        /\ \A k \in BindEvents : dlog[k].was = NULL
        /\ \A t \in Tids : Places(t) = 1

(* a call of each kind of bind: under SRTCF a thread was bound to an idle
   core and another bound in the place of a preempted thread *)
C18_Witness ==
    /\ pc = "bump"
    /\ algo = DISP_SRTCF
    /\ \E j, k \in BindEvents :
          /\ dlog[j].core # dlog[k].core
          /\ j < k
          /\ \E v \in PreemptEvents : v + 1 = k
          /\ \A v \in PreemptEvents : dlog[v].core # dlog[j].core

(* C19. Wait accrual: in each tick the wait_time of a thread grows by
   exactly 1 if the thread is in Ready after the dispatch of that tick (a
   thread preempted in that dispatch included) and by 0 otherwise; no other
   step changes a wait_time. *)
C19_StepWait ==
    \A t \in Tids \cap DOMAIN thr' :
        thr'[t].wait_time =
            thr[t].wait_time + (IF pc = "bump" /\ InQ(ready, t) THEN 1 ELSE 0)

C19_WaitAccrual == [][C19_StepWait]_vars

(* after the accrual of a tick: a thread preempted in this tick was charged
   its first tick, the running thread was not, and a thread that has been in
   Waiting was never charged *)
C19_Witness ==
    /\ pc = "step"
    /\ \E t \in Preempted : InQ(ready, t) /\ thr[t].wait_time = 1
    /\ \E u \in Tids : thr[u].unblocked_at # Unset /\ thr[u].wait_time = 0
    /\ \E r \in Tids : OnCore(r) /\ thr[r].wait_time = 0

(* C20. Completion collection: a thread whose remaining reaches 0 in the
   core step of tick t is unbound in the collection of the same tick, gets
   state Finished and finish_time = t + 1, the clock after the step, and is
   appended to Finished; a thread with remaining > 0 is never collected. *)
Completed == { t \in Tids : OnCore(t) /\ thr[t].remaining = 0 }

IsPrefix(p, q) == Len(p) <= Len(q) /\ \A i \in DOMAIN p : q[i] = p[i]

C20_StepCollect ==
    /\ pc # "collect" =>
          /\ Completed = {}
          /\ finished' = finished
    /\ pc = "step" => SIM_TIME' = SIM_TIME + 1
    /\ pc = "collect" =>
          /\ SIM_TIME' = SIM_TIME
          /\ IsPrefix(finished, finished')
          /\ \A t \in Tids :
                IF t \in Completed
                THEN /\ ~OnCore(t)'
                     /\ Occurrences(finished', t) = 1 /\ ~InQ(finished, t)
                     /\ thr'[t] = [thr[t] EXCEPT !.state = ST_FINISHED,
                                                 !.finish_time = SIM_TIME]
                ELSE /\ thr'[t] = thr[t]
                     /\ OnCore(t)' = OnCore(t)
                     /\ InQ(finished', t) = InQ(finished, t)

C20_Collection == [][C20_StepCollect]_vars

(* after a collection on two cores: one thread has just been collected at
   this clock, the thread of the other core has work left and stays *)
C20_Witness ==
    /\ pc = "all_done"
    /\ ncores = MaxCores
    /\ \E t \in Tids :
          /\ InQ(finished, t)
          /\ thr[t].finish_time = SIM_TIME
          /\ thr[t].start_time + thr[t].burst_time < thr[t].finish_time
    /\ \E r \in Tids :
          /\ OnCore(r)
          /\ 0 < thr[r].remaining /\ thr[r].remaining < thr[r].burst_time

(* C12. simulate_windows: an arrival never preempts the running slice.  The
   recorded slices follow one another without overlap, the slice of the
   running process is the last one recorded, and the clock never passes its
   end while it runs, whatever arrives in between. *)
C12_NoMidSlicePreemption ==
    /\ \A i, j \in DOMAIN sim.gantt :
          i < j => sim.gantt[i].end <= sim.gantt[j].start
    /\ win.running # -1 =>
          /\ sim.gantt # <<>>
          /\ sim.gantt[Len(sim.gantt)] =
                [start |-> win.slice_start, end |-> win.slice_end,
                 pid |-> wprocs[win.running].pid]
          /\ sim.now <= win.slice_end

(* a finished run in which a process of higher priority arrived strictly
   inside a slice of another process and first ran after the end of it *)
C12_Witness ==
    /\ wpc = "done"
    /\ \E i \in DOMAIN sim.gantt, h \in DOMAIN wprocs, l \in DOMAIN wprocs :
          /\ wprocs[l].pid = sim.gantt[i].pid
          /\ wprocs[h].base_prio > wprocs[l].base_prio
          /\ sim.gantt[i].start < wprocs[h].arrival
          /\ wprocs[h].arrival < sim.gantt[i].end
          /\ wprocs[h].start_time >= sim.gantt[i].end

(* C21. Interrupt round trip: a thread enters Waiting only in the interrupt
   step, from a core, with an unblock time io_min..io_max ticks ahead of the
   clock; it stays in Waiting while its unblock time is ahead of the clock
   and leaves it, for Ready, exactly in the resolve step of the tick equal
   to its unblock time; the clock never passes the unblock time of a Waiting
   thread and the loop does not stop while a thread is in Waiting. *)
C21_StepRoundTrip ==
    /\ \A t \in Tids \cap DOMAIN thr' :
          /\ (~InQ(waiting, t) /\ InQ(waiting, t)') =>
                /\ pc = "interrupts"
                /\ OnCore(t)
                /\ thr'[t].unblocked_at >= SIM_TIME + intr.io_min
                /\ thr'[t].unblocked_at <= SIM_TIME + intr.io_max
          /\ (InQ(waiting, t) /\ ~InQ(waiting, t)') =>
                /\ pc = "resolve"
                /\ thr[t].unblocked_at = SIM_TIME
                /\ InQ(ready, t)'
          /\ (InQ(waiting, t) /\ InQ(waiting, t)') =>
                /\ thr'[t].unblocked_at = thr[t].unblocked_at
                /\ pc = "resolve" => thr[t].unblocked_at > SIM_TIME
          /\ InQ(waiting, t) => thr[t].unblocked_at >= SIM_TIME
          /\ InQ(waiting, t)' => thr'[t].unblocked_at >= SIM_TIME'
    /\ pc' = "done" => waiting' = <<>>

C21_InterruptRoundTrip == [][C21_StepRoundTrip]_vars

(* right after a resolve step: a thread whose unblock time is now is back in
   Ready, another thread with a later unblock time is still in Waiting *)
C21_Witness ==
    /\ pc = "interrupts"
    /\ \E t \in Tids : InQ(ready, t) /\ thr[t].unblocked_at = SIM_TIME
    /\ \E u \in Tids : InQ(waiting, u) /\ thr[u].unblocked_at = SIM_TIME + 1

(* C22. Admission: a thread leaves the workload only for Ready, only in an
   admission (the one before the loop or the admit step) whose clock equals
   its arrival_time, and never returns to it; the threads admitted together
   enter Ready in workload order, the others keep their order in the
   workload; and every thread is admitted: none is left when the loop
   stops. *)
ArrivesNow(t) == thr'[t].arrival_time = SIM_TIME'

ArrivesLater(t) == thr'[t].arrival_time # SIM_TIME'

(* the workload an admission scans: in the loop the workload queue, before
   the loop all the threads added, in the order they were added *)
Scanned == IF pc = "admit" THEN workload ELSE [i \in DOMAIN thr' |-> i]

C22_StepAdmits ==
    /\ \A t \in Tids :
          /\ (InQ(workload, t) /\ ~InQ(workload, t)') =>
                /\ pc \in {"setup", "loaded", "admit"}
                /\ thr[t].arrival_time = SIM_TIME'
                /\ thr'[t].state = ST_READY
                /\ InQ(ready, t)'
          /\ ~InQ(workload, t) => ~InQ(workload, t)'
    /\ (pc \in {"setup", "loaded", "admit"} /\ pc' \in {"admit", "resolve"}) =>
          /\ ready' = ready \o SelectSeq(Scanned, ArrivesNow)
          /\ workload' = SelectSeq(Scanned, ArrivesLater)
    /\ pc \notin {"setup", "loaded", "admit"} => workload' = workload

C22_StepAllAdmitted == pc' = "done" => workload' = <<>>

C22_AdmissionOrder == [][C22_StepAdmits]_vars

C22_Admission == [][C22_StepAdmits /\ C22_StepAllAdmitted]_vars

(* C23. Tick ceiling: the clock never exceeds MAX_TICKS, the length of
   every row of the per-core trace, and every tick that is stepped has a
   slot in the trace (its index is below MAX_TICKS). *)
C23_TickCeiling ==
    Running =>
        /\ SIM_TIME <= MAX_TICKS
        /\ pc \in {"admit", "resolve", "interrupts", "dispatch", "bump", "step"} =>
              SIM_TIME < MAX_TICKS

(* C24. Work conservation: after a dispatch call, under each policy, no
   core is idle while Ready is non-empty. *)
C24_WorkConserving ==
    pc = "bump" =>
        ~(~q_empty(ready) /\ \E c \in DOMAIN core : core[c] = NULL)

(* after a call of dispatch_fifo that found every core idle: every core was
   bound in the call and a thread is left in Ready *)
C24_Witness ==
    /\ pc = "bump"
    /\ algo = DISP_FIFO
    /\ ncores = MaxCores
    /\ Cardinality(Binds) = MaxCores
    /\ ~q_empty(ready)

(* C25. Metric identity: with interrupts off, every thread in Finished has
   finish_time - arrival_time = burst_time + wait_time and
   arrival_time <= start_time <= finish_time - burst_time. *)
C25_MetricIdentity ==
    (Running /\ NoInterrupts) =>
        \A t \in Tids :
            InQ(finished, t) =>
                /\ thr[t].finish_time - thr[t].arrival_time
                      = thr[t].burst_time + thr[t].wait_time
                /\ thr[t].arrival_time <= thr[t].start_time
                /\ thr[t].start_time <= thr[t].finish_time - thr[t].burst_time

(* a finished run, interrupts off: a thread that arrived late, waited before
   its first tick and was preempted between its first and its last tick *)
C25_Witness ==
    /\ pc = "done"
    /\ NoInterrupts
    /\ \E t \in Tids :
          /\ InQ(finished, t)
          /\ thr[t].start_time + thr[t].burst_time < thr[t].finish_time
    /\ \E u \in Tids :
          /\ InQ(finished, u)
          /\ thr[u].arrival_time > 0
          /\ thr[u].start_time > thr[u].arrival_time

(* C26. With bursts > 0, at the start of every tick, and at every point of
   the loop but between the core step and the collection, a thread in Ready,
   in Waiting or on a core has remaining >= 1, and a thread has remaining 0
   exactly when it is in Finished. *)
C26_RemainingPositive ==
    (Running /\ pc # "collect") =>
        \A t \in Tids :
            /\ (InQ(ready, t) \/ InQ(waiting, t) \/ OnCore(t)) => thr[t].remaining >= 1
            /\ thr[t].remaining = 0 <=> InQ(finished, t)

(* the start of a tick with a finished thread, a thread in Waiting with work
   left and a thread on a core *)
C26_Witness ==
    /\ pc = "admit"
    /\ SIM_TIME > 0
    /\ \E t \in Tids : InQ(finished, t) /\ thr[t].remaining = 0
    /\ \E u \in Tids : InQ(waiting, u) /\ thr[u].remaining < thr[u].burst_time
    /\ \E r \in Tids : OnCore(r) /\ thr[r].remaining < thr[r].burst_time

(* C27. Within one call of dispatch_srtcf no thread changes placement twice:
   a thread bound in the call is not preempted later in it, a thread
   preempted in the call is not bound again in it. *)
C27_OnePlacementChange ==
    (pc = "bump" /\ algo = DISP_SRTCF) =>
        \A j, k \in DOMAIN dlog : dlog[j].tid = dlog[k].tid => j = k

(* a call that bound a thread on an idle core, preempted a thread and bound
   another in its place; the preempted thread is in Ready with a thread of
   smaller remaining that was not bound *)
C27_Witness ==
    /\ pc = "bump"
    /\ algo = DISP_SRTCF
    /\ Cardinality(BindEvents) >= 2
    /\ \E v \in PreemptEvents, r \in Tids :
          /\ v > 1
          /\ InQ(ready, dlog[v].tid)
          /\ InQ(ready, r)
          /\ thr[r].remaining < thr[dlog[v].tid].remaining

(* C28. Progress per binding: a thread comes onto a core only in the
   dispatch step; every thread bound in the dispatch of a tick is on its
   core when the cores are stepped in that tick and its remaining goes down
   by 1 there; so a thread that leaves a core, interrupted, preempted or
   finished, has run at least one tick on it. *)
C28_StepProgress ==
    /\ \A t \in Tids :
          /\ (~OnCore(t) /\ OnCore(t)') => (pc = "dispatch" /\ t \in Binds')
          /\ (OnCore(t) /\ ~OnCore(t)') =>
                /\ pc \in {"interrupts", "dispatch", "collect"}
                /\ thr[t].remaining < thr[t].burst_time
                /\ pc = "dispatch" => t \notin Binds'
    /\ pc = "dispatch" => \A b \in Binds' : OnCore(b)'
    /\ pc = "bump" => core' = core
    /\ pc = "step" =>
          /\ core' = core
          /\ \A b \in Binds :
                OnCore(b) /\ thr'[b].remaining = thr[b].remaining - 1

C28_ProgressPerBinding == [][C28_StepProgress]_vars

(* interrupt probability 100: a thread interrupted before, bound again in
   this tick, has just run its tick *)
C28_Witness ==
    /\ pc = "collect"
    /\ intr.enable_random /\ intr.pct_io = 100
    /\ \E b \in Binds :
          /\ OnCore(b)
          /\ thr[b].unblocked_at # Unset
          /\ thr[b].remaining <= thr[b].burst_time - 2

(* the waiting metric of process i of procs accounts for all the time
   between its arrival and its completion in which it was not running *)
WaitingIdentity(procs, i) ==
    procs[i].completion - procs[i].arrival = procs[i].burst + procs[i].waiting

(* the Windows-like half of C29: holds in every run of simulate_windows *)
C29_WinWaitingIdentity ==
    wpc = "done" => \A i \in DOMAIN wprocs : WaitingIdentity(wprocs, i)

(* C29. Waiting metric: when simulate_windows or simulate_cfs has ended,
   completion - arrival = burst + waiting for every process, including
   those that arrived while another process was running. *)
C29_WaitingMetric ==
    /\ C29_WinWaitingIdentity
    /\ cpc = "done" => \A i \in DOMAIN cprocs : WaitingIdentity(cprocs, i)

(* the sums of the remaining times and of the bursts of procs *)
RECURSIVE RemainingUpTo(_, _)
RemainingUpTo(procs, k) ==
    IF k = 0 THEN 0 ELSE procs[k].remaining + RemainingUpTo(procs, k - 1)

TotalRemaining(procs) == RemainingUpTo(procs, Len(procs))

RECURSIVE BurstUpTo(_, _)
BurstUpTo(procs, k) ==
    IF k = 0 THEN 0 ELSE procs[k].burst + BurstUpTo(procs, k - 1)

TotalBurst(procs) == BurstUpTo(procs, Len(procs))

(* what is left to do: the CPU time still owed, the arrivals not yet
   handled, and one pass of idling when the next arrival is in the future *)
WorkLeft(procs, arrivals, ai, now) ==
    2 * TotalRemaining(procs) + 2 * (Len(arrivals) + 1 - ai)
      + (IF ai <= Len(arrivals) /\ arrivals[ai].t > now THEN 1 ELSE 0)

WinWorkLeft == WorkLeft(wprocs, win.arrivals, win.ai, sim.now)

CfsWorkLeft == WorkLeft(cprocs, cloc.arrivals, cloc.ai, cfs.now)

(* procs at the end of a run that did busy units of work *)
AllCompleted(procs, busy) ==
    /\ \A i \in DOMAIN procs :
          /\ procs[i].remaining = 0
          /\ procs[i].completion >= procs[i].arrival + procs[i].burst
    /\ busy = TotalBurst(procs)

(* in every state of either simulator: remaining is never negative, what is
   left to do is never negative, and the run has ended only with every
   process completed and busy_time the sum of the bursts *)
C30_Safe ==
    /\ \A i \in DOMAIN wprocs : wprocs[i].remaining >= 0
    /\ \A i \in DOMAIN cprocs : cprocs[i].remaining >= 0
    /\ WinWorkLeft >= 0
    /\ CfsWorkLeft >= 0
    /\ wpc = "done" => AllCompleted(wprocs, sim.busy_time)
    /\ cpc = "done" => AllCompleted(cprocs, cfs.busy_time)

(* every pass of either main loop ends the run or leaves less to do *)
C30_StepDecreases ==
    /\ (wpc = "loop" /\ wpc' = "loop") => WinWorkLeft' < WinWorkLeft
    /\ (cpc = "loop" /\ cpc' = "loop") => CfsWorkLeft' < CfsWorkLeft
    /\ wpc' \in {wpc, "done"}
    /\ cpc' \in {cpc, "done"}

(* C30. Termination: simulate_windows and simulate_cfs terminate for every
   workload with arrival >= 0 and burst > 0 (every pass of the main loop
   that does not end the run decreases a quantity that is never negative);
   at the end every process has remaining = 0 and
   completion >= arrival + burst, remaining is never negative, and
   busy_time is the sum of the bursts. *)
C30_Terminates == [][C30_Safe /\ C30_Safe' /\ C30_StepDecreases]_vars

(* simulate_cfs has ended a run in which it idled until a late arrival, a
   process was put back into the run queue, and a process ran less than
   its slice *)
C30_Witness ==
    /\ cpc = "done"
    /\ Len(cprocs) >= 2
    /\ Len(cfs.gantt) > Len(cprocs)
    /\ \A i \in DOMAIN cprocs : cprocs[i].arrival > 0
    /\ \E i \in DOMAIN cprocs : cprocs[i].burst < cfs.sched_period

(* C31. The selection scan of sjf() runs with the bound i <= len: called on
   an array whose count is n, with valid entries 0..n-1, it reads the
   indexes 0, 1, ..., n in this order, index n being one past the valid
   entries. *)
C31_ScanReadsPastEnd ==
    pslog.op = "sjf" =>
        /\ Len(pslog.reads) >= ps.len + 1
        /\ \A k \in 1..(ps.len + 1) : pslog.reads[k] = k - 1

(* sjf() was called on a full array of two or more processes, and read the
   index that is its count: outside the array *)
C31_Witness ==
    /\ pslog.op = "sjf"
    /\ ps.len >= 2
    /\ ps.len = Cardinality(DOMAIN ps.procArray)
    /\ \E k \in DOMAIN pslog.reads : pslog.reads[k] = ps.len

(* the step is a call of rr() in which the process whose turn it was
   reached remainingTime <= 0 *)
RrFinished == pslog'.op = "rr" /\ pslog'.finished

(* a call of rr() that finished a process returns, with the count one less
   and the other processes in their order, each once *)
C32_StepRemoval ==
    RrFinished =>
        /\ ps'.status = "ok"
        /\ ps'.len = ps.len - 1
        /\ \A i \in 0..(ps.len - 2) :
              ps'.procArray[i] =
                  ps.procArray[IF i < pslog'.turn THEN i ELSE i + 1]

(* C32. Removal in rr(): when the process whose turn it is reaches
   remainingTime <= 0 it is removed from procArray and the count is
   decremented; every other process stays in the array exactly once, in
   its original relative order. *)
C32_Removal == [][C32_StepRemoval]_vars

(* the valid pages of the MemoryManager, and the frames they map to *)
ValidPages == { p \in DOMAIN mm.M.pageTable : mm.M.pageTable[p].validBit }

MapsTo(p, f) == mm.M.pageTable[p].validBit /\ mm.M.pageTable[p].pageFrameNum = f

(* the second half of C33: a call of allocateAnyPage that does not throw
   has taken the lowest page that was not valid and the lowest frame that
   was free, and returns the address of the page *)
C33_StepAnyPage ==
    (mm'.last.op = "allocateAnyPage" /\ mm'.last.thrown = "") =>
        \E p \in DOMAIN mm.M.pageTable, f \in DOMAIN mm.M.freeFrames :
            /\ ~mm.M.pageTable[p].validBit
            /\ \A q \in DOMAIN mm.M.pageTable : q < p => mm.M.pageTable[q].validBit
            /\ mm.M.freeFrames[f]
            /\ \A g \in DOMAIN mm.M.freeFrames : g < f => ~mm.M.freeFrames[g]
            /\ mm'.M.pageTable[p].validBit
            /\ mm'.M.pageTable[p].pageFrameNum = f
            /\ mm'.last.ret = p * mm.M.PAGE_SIZE

C33_AnyPageLowest == [][C33_StepAnyPage]_vars

(* C33. Frame exclusivity: after any sequence of allocatePage and
   allocateAnyPage calls no two valid pages map to the same frame, and a
   frame is marked not free if and only if some valid page maps to it. *)
C33_FrameExclusivity ==
    /\ \A p, q \in ValidPages :
          p # q => mm.M.pageTable[p].pageFrameNum # mm.M.pageTable[q].pageFrameNum
    /\ \A f \in DOMAIN mm.M.freeFrames :
          ~mm.M.freeFrames[f] <=> \E p \in ValidPages : MapsTo(p, f)

====
